---- MODULE Spec2Model ----
(***************************************************************************)
(* Verification model of the QA test-scenario generator (qa_generator)     *)
(* and the chat engine of rmacdonaldsmith/mlx-lm-playground.               *)
(*                                                                         *)
(* Texts whose characters matter (raw acceptance criteria, titles) are     *)
(* sequences of one-character strings; identifiers are TLA+ strings built  *)
(* by the same formatting the code uses.                                   *)
(***************************************************************************)
EXTENDS Integers, Sequences, FiniteSets, TLC

VARIABLES
    p_pc,            \* parser: "start" | "done"
    p_criteria,      \* parser: the raw AC strings handed to the normalizer
    p_normalized,    \* parser: the list returned by the normalizer
    g_pc,            \* CaseGenerator.process: "loop" | "done"
    g_policy,        \* constraints.priority_policy ("None" when unset)
    g_scenarios,     \* the scenario list handed to CaseGenerator.process
    g_i,             \* loop variable i of process (0-based start of the batch)
    all_test_cases,  \* the accumulator all_test_cases of process
    g_returned,      \* the list process returned (<<>> before it returns)
    c_op,            \* critic: the operation that was called ("none" before)
    c_acs,           \* critic: the acceptance_criteria argument
    c_scenarios,     \* critic: the scenarios argument
    c_test_cases,    \* critic: the test_cases argument
    c_result,        \* critic: what the called operation returned or raised
    s_pc,            \* synthesizer: "start" | "done"
    s_acs,           \* synthesizer: the acceptance criteria
    s_raw,           \* synthesizer: the scenarios of the LLM response
    s_scenarios,     \* synthesizer: the list _post_process_scenarios returned
    wf,              \* QAWorkflow.run: inputs, artifacts of the nodes, outcome
    rt,              \* JSONValidator.validate_with_retries: inputs and result
    fa,              \* RuntimeFactory.create_runtime: inputs and result
    cli,             \* QA CLI main: arguments and exit code
    eng,             \* mlxchat Engine: params, messages, caches, open stream
    cfg,             \* mlxchat configuration tiers and the merged result
    repl             \* mlxchat REPL loop of main: position, last line, output

vars == <<p_pc, p_criteria, p_normalized,
          g_pc, g_policy, g_scenarios, g_i, all_test_cases, g_returned,
          c_op, c_acs, c_scenarios, c_test_cases, c_result,
          s_pc, s_acs, s_raw, s_scenarios,
          wf, rt, fa, cli, eng, cfg, repl>>

parserVars == <<p_pc, p_criteria, p_normalized>>
genVars == <<g_pc, g_policy, g_scenarios, g_i, all_test_cases, g_returned>>
criticVars == <<c_op, c_acs, c_scenarios, c_test_cases, c_result>>
synthVars == <<s_pc, s_acs, s_raw, s_scenarios>>
nodeVars == <<parserVars, genVars, criticVars, synthVars>>
extVars == <<wf, rt, fa, cli, eng, cfg, repl>>

\* The value of a component that takes no part in a run
Idle == [pc |-> "idle"]

(***************************************************************************)
(* Bounds of the model.                                                    *)
(***************************************************************************)
MaxCriteria == 3     \* raw AC strings per input list
MaxRawLen == 2       \* characters per raw AC string

(***************************************************************************)
(* Generic helpers.                                                        *)
(***************************************************************************)
Range(s) == {s[k] : k \in 1..Len(s)}

SeqsUpTo(S, n) == UNION {[1..k -> S] : k \in 0..n}

\* Python str.strip(): the characters it removes at both ends.
Whitespace == {" ", "\t"}

RECURSIVE LStrip(_)
LStrip(s) == IF s # <<>> /\ Head(s) \in Whitespace THEN LStrip(Tail(s)) ELSE s

RECURSIVE RStrip(_)
RStrip(s) ==
    IF s # <<>> /\ s[Len(s)] \in Whitespace
    THEN RStrip(SubSeq(s, 1, Len(s) - 1))
    ELSE s

Strip(s) == RStrip(LStrip(s))

(***************************************************************************)
(* Character-level text helpers (str.lower and the `in` substring test).   *)
(***************************************************************************)
UpperCase == <<"A", "B", "C", "D", "E", "F", "G", "H", "I", "J", "K", "L", "M",
               "N", "O", "P", "Q", "R", "S", "T", "U", "V", "W", "X", "Y", "Z">>
LowerCase == <<"a", "b", "c", "d", "e", "f", "g", "h", "i", "j", "k", "l", "m",
               "n", "o", "p", "q", "r", "s", "t", "u", "v", "w", "x", "y", "z">>

ToLowerMap ==
    [c \in {UpperCase[k] : k \in 1..Len(UpperCase)} |->
        LowerCase[CHOOSE k \in 1..Len(UpperCase) : UpperCase[k] = c]]

LowerChar(c) == IF c \in DOMAIN ToLowerMap THEN ToLowerMap[c] ELSE c

Lower(s) == [k \in 1..Len(s) |-> LowerChar(s[k])]

\* Python `pat in s` for strings.
Contains(s, pat) ==
    \E k \in 0..(Len(s) - Len(pat)) : SubSeq(s, k + 1, k + Len(pat)) = pat

\* The decimal digits as characters
Digits == <<"0", "1", "2", "3", "4", "5", "6", "7", "8", "9">>

\* f"{i:03d}"
Pad3(i) ==
    IF i < 10 THEN "00" \o ToString(i)
    ELSE IF i < 100 THEN "0" \o ToString(i)
    ELSE ToString(i)

\* f"TC-{i:03d}" and f"SCN-{i:03d}"
TCId(i) == "TC-" \o Pad3(i)
SCNId(i) == "SCN-" \o Pad3(i)

\* negative_indicators of generator.py and synthesizer.py
negative_indicators == {
    <<"i", "n", "v", "a", "l", "i", "d">>,
    <<"e", "r", "r", "o", "r">>,
    <<"f", "a", "i", "l">>,
    <<"m", "i", "s", "s", "i", "n", "g">>,
    <<"e", "m", "p", "t", "y">>,
    <<"w", "r", "o", "n", "g">>,
    <<"u", "n", "a", "u", "t", "h", "o", "r", "i", "z", "e", "d">>,
    <<"f", "o", "r", "b", "i", "d", "d", "e", "n">>,
    <<"d", "e", "n", "i", "e", "d">>,
    <<"t", "i", "m", "e", "o", "u", "t">>,
    <<"l", "i", "m", "i", "t">> }

\* Sample scenario titles: one without and one with a negative indicator
\* (the indicator is found only after lower-casing).
TitleValidLogin == <<"V", "a", "l", "i", "d", " ", "l", "o", "g", "i", "n">>
TitleInvalidZip == <<"I", "n", "v", "a", "l", "i", "d", " ", "Z", "I", "P">>

\* Step texts: "Step", "Execute test scenario: " and "Execute test case"
TextStep == <<"S", "t", "e", "p">>
TextExecutePrefix ==
    <<"E", "x", "e", "c", "u", "t", "e", " ", "t", "e", "s", "t", " ", "s", "c", "e", "n", "a", "r", "i", "o", ":", " ">>
TextExecuteCase ==
    <<"E", "x", "e", "c", "u", "t", "e", " ", "t", "e", "s", "t", " ", "c", "a", "s", "e">>

\* f"AC{i}"
ACId(i) == "AC" \o ToString(i)

(***************************************************************************)
(* ParseRequirements._normalize_acceptance_criteria                        *)
(***************************************************************************)
\* The loop body for the 1-based position i (enumerate(criteria, 1)): the ID
\* is built from i before the blank test.
RECURSIVE NormalizeFrom(_, _)
NormalizeFrom(criteria, i) ==
    IF i > Len(criteria) THEN <<>>
    ELSE LET ac_id == ACId(i)
             cleaned_text == Strip(criteria[i])
         IN  IF cleaned_text = <<>>
             THEN NormalizeFrom(criteria, i + 1)
             ELSE <<[id |-> ac_id, text |-> cleaned_text]>>
                  \o NormalizeFrom(criteria, i + 1)

NormalizeAcceptanceCriteria(criteria) == NormalizeFrom(criteria, 1)

RawChars == {" ", "\t", "a"}
RawStrings == SeqsUpTo(RawChars, MaxRawLen)

(***************************************************************************)
(* CaseGenerator (nodes/generator.py)                                      *)
(***************************************************************************)
batch_size == 5

\* scenarios[i:i + batch_size] for the 0-based start i
Batch(scenarios, i) ==
    SubSeq(scenarios, i + 1,
           IF i + batch_size < Len(scenarios) THEN i + batch_size
           ELSE Len(scenarios))

\* _fix_test_case_ids: the ID of the case at the 1-based position k of the
\* list it is given becomes TC-00k; every other field is copied.
FixTestCaseIds(test_cases) ==
    [k \in 1..Len(test_cases) |-> [test_cases[k] EXCEPT !.id = TCId(k)]]

\* _validate_scenario_references
ValidateScenarioReferences(test_cases, scenarios) ==
    LET valid_scenario_ids == {scenarios[k].id : k \in 1..Len(scenarios)}
        Valid(tc) == tc.scenario_id \in valid_scenario_ids
    IN  SelectSeq(test_cases, Valid)

\* any(indicator in title_lower for indicator in negative_indicators)
HasNegativeIndicator(title_lower) ==
    \E indicator \in negative_indicators : Contains(title_lower, indicator)

\* _is_negative_scenario
IsNegativeScenario(scenario) == HasNegativeIndicator(Lower(scenario.title))

\* _ensure_scenario_coverage adding no minimal case
EnsureScenarioCoverage_NoAdditions(test_cases, scenarios) == test_cases

\* _ensure_scenario_coverage
EnsureScenarioCoverage(test_cases, scenarios) ==
    LET covered_scenarios == {test_cases[k].scenario_id : k \in 1..Len(test_cases)}
        Uncovered(s) == s.id \notin covered_scenarios
        uncovered_scenarios == SelectSeq(scenarios, Uncovered)
        next_id == Len(test_cases) + 1
        additional_cases ==
            [k \in 1..Len(uncovered_scenarios) |->
                [id |-> TCId(next_id + k - 1),
                 scenario_id |-> uncovered_scenarios[k].id,
                 case_type |-> uncovered_scenarios[k].type,
                 priority |-> "P2",
                 steps |-> <<TextExecutePrefix \o uncovered_scenarios[k].title>>,
                 expected |-> <<"Scenario completes successfully">>,
                 negative |-> IsNegativeScenario(uncovered_scenarios[k]),
                 tags |-> <<"auto-generated">>]]
    IN  test_cases \o additional_cases

\* scenario_risk.get(scenario_id, "medium") on the dict {s.id: s.risk}: of
\* two scenarios with one ID the later one wins.
ScenarioRisk(scenarios, scenario_id) ==
    LET hits == {k \in 1..Len(scenarios) : scenarios[k].id = scenario_id}
    IN  IF hits = {} THEN "medium"
        ELSE scenarios[CHOOSE k \in hits : \A j \in hits : j <= k].risk

\* _refine_priorities with the uniform branch testing the negative flag before
\* the boundary case type.
RefinedPriority_NegativeFirst(policy, scenario_risk_level, test_case) ==
    IF policy = "risk_weighted"
    THEN IF scenario_risk_level = "high"
         THEN (IF ~test_case.negative THEN "P0" ELSE "P1")
         ELSE IF scenario_risk_level = "medium"
         THEN (IF ~test_case.negative THEN "P1" ELSE "P2")
         ELSE (IF ~test_case.negative THEN "P2" ELSE "P3")
    ELSE IF test_case.negative THEN "P2"
         ELSE IF test_case.case_type = "boundary" THEN "P3"
         ELSE "P1"

\* The priority _refine_priorities computes for one case.
RefinedPriority(policy, scenario_risk_level, test_case) ==
    IF policy = "risk_weighted"
    THEN IF scenario_risk_level = "high"
         THEN (IF ~test_case.negative THEN "P0" ELSE "P1")
         ELSE IF scenario_risk_level = "medium"
         THEN (IF ~test_case.negative THEN "P1" ELSE "P2")
         ELSE (IF ~test_case.negative THEN "P2" ELSE "P3")
    ELSE IF test_case.case_type = "boundary" THEN "P3"
         ELSE IF test_case.negative THEN "P2"
         ELSE "P1"

\* self.constraints.priority_policy or "risk_weighted"
EffectivePolicy(priority_policy) ==
    IF priority_policy = "None" THEN "risk_weighted" ELSE priority_policy

\* _refine_priorities
RefinePriorities(test_cases, scenarios, priority_policy) ==
    LET policy == EffectivePolicy(priority_policy)
    IN  [k \in 1..Len(test_cases) |->
            [test_cases[k] EXCEPT !.priority =
                RefinedPriority(policy,
                    ScenarioRisk(scenarios, test_cases[k].scenario_id),
                    test_cases[k])]]

\* _validate_test_case_completeness
ValidateTestCaseCompleteness(test_cases) ==
    [k \in 1..Len(test_cases) |->
        LET tc1 == IF test_cases[k].steps = <<>>
                   THEN [test_cases[k] EXCEPT !.steps = <<TextExecuteCase>>]
                   ELSE test_cases[k]
        IN  IF tc1.expected = <<>>
            THEN [tc1 EXCEPT !.expected = <<"Test case completes successfully">>]
            ELSE tc1]

\* _post_process_test_cases: the five steps in their order
PostProcessTestCases(test_cases, scenarios, priority_policy) ==
    LET step1 == FixTestCaseIds(test_cases)
        step2 == ValidateScenarioReferences(step1, scenarios)
        step3 == EnsureScenarioCoverage(step2, scenarios)
        step4 == RefinePriorities(step3, scenarios, priority_policy)
    IN  ValidateTestCaseCompleteness(step4)

(***************************************************************************)
(* ScenarioSynthesizer (nodes/synthesizer.py)                              *)
(***************************************************************************)
MaxSynthACs == 2        \* acceptance criteria handed to the synthesizer
MaxRawScenarios == 2    \* scenarios in the LLM response

\* str(i) for i >= 0, as characters
RECURSIVE DecimalChars(_)
DecimalChars(i) ==
    IF i < 10 THEN <<Digits[i + 1]>>
    ELSE DecimalChars(i \div 10) \o <<Digits[(i % 10) + 1]>>

\* The characters of an AC ID f"AC{i}" of the model
ACIdChars(ac_id) ==
    LET i == CHOOSE i \in 1..(MaxSynthACs + 1) : ACId(i) = ac_id
    IN  <<"A", "C">> \o DecimalChars(i)

TextValidCaseFor ==
    <<"V", "a", "l", "i", "d", " ", "c", "a", "s", "e", " ", "f", "o", "r", " ">>
TextInvalidCaseFor ==
    <<"I", "n", "v", "a", "l", "i", "d", " ", "c", "a", "s", "e", " ", "f", "o", "r", " ">>

\* The while loop of _fix_scenario_ids: original_id[:-3] followed by
\* f"{counter:03d}" for counter = 2, 3, ... until the ID is unused.
RECURSIVE NextUnusedId(_, _)
NextUnusedId(counter, used_ids) ==
    IF SCNId(counter) \in used_ids THEN NextUnusedId(counter + 1, used_ids)
    ELSE SCNId(counter)

\* _fix_scenario_ids from the 1-based position i on, with the IDs used so far
RECURSIVE FixScenarioIdsFrom(_, _, _)
FixScenarioIdsFrom(scenarios, i, used_ids) ==
    IF i > Len(scenarios) THEN <<>>
    ELSE LET scenario_id == IF SCNId(i) \in used_ids
                            THEN NextUnusedId(2, used_ids)
                            ELSE SCNId(i)
         IN  <<[scenarios[i] EXCEPT !.id = scenario_id]>>
             \o FixScenarioIdsFrom(scenarios, i + 1, used_ids \cup {scenario_id})

\* _fix_scenario_ids
FixScenarioIds(scenarios) == FixScenarioIdsFrom(scenarios, 1, {})

\* _is_likely_positive_scenario
IsLikelyPositiveScenario(scenario) == ~HasNegativeIndicator(Lower(scenario.title))

\* _is_likely_negative_scenario
IsLikelyNegativeScenario(scenario) == ~IsLikelyPositiveScenario(scenario)

\* _analyze_scenario_coverage, read at one key: coverage.get(ac_id, [])
ScenariosForAc(scenarios, ac_id) ==
    LET Covers(sc) == ac_id \in Range(sc.related_requirements)
    IN  SelectSeq(scenarios, Covers)

\* _create_default_positive_scenario
CreateDefaultPositiveScenario(ac, scenario_id) ==
    [id |-> scenario_id,
     title |-> TextValidCaseFor \o ACIdChars(ac.id),
     type |-> "functional",
     risk |-> "medium",
     related_requirements |-> <<ac.id>>]

\* _create_default_negative_scenario
CreateDefaultNegativeScenario(ac, scenario_id) ==
    [id |-> scenario_id,
     title |-> TextInvalidCaseFor \o ACIdChars(ac.id),
     type |-> "functional",
     risk |-> "medium",
     related_requirements |-> <<ac.id>>]

\* The loop of _ensure_ac_coverage over the ACs from position i on:
\* additional_scenarios, numbered from next_id.
RECURSIVE AdditionalScenarios(_, _, _, _)
AdditionalScenarios(scenarios, acceptance_criteria, i, next_id) ==
    IF i > Len(acceptance_criteria) THEN <<>>
    ELSE LET ac == acceptance_criteria[i]
             scenarios_for_ac == ScenariosForAc(scenarios, ac.id)
             has_positive == \E k \in 1..Len(scenarios_for_ac) :
                                 IsLikelyPositiveScenario(scenarios_for_ac[k])
             has_negative == \E k \in 1..Len(scenarios_for_ac) :
                                 IsLikelyNegativeScenario(scenarios_for_ac[k])
             positive == IF ~has_positive
                         THEN <<CreateDefaultPositiveScenario(ac, SCNId(next_id))>>
                         ELSE <<>>
             after_positive == next_id + Len(positive)
             negative == IF ~has_negative
                         THEN <<CreateDefaultNegativeScenario(ac, SCNId(after_positive))>>
                         ELSE <<>>
         IN  positive \o negative
             \o AdditionalScenarios(scenarios, acceptance_criteria, i + 1,
                                    after_positive + Len(negative))

\* _ensure_ac_coverage with next_id starting at len(scenarios)
EnsureAcCoverage_OffByOne(scenarios, acceptance_criteria) ==
    scenarios \o AdditionalScenarios(scenarios, acceptance_criteria, 1,
                                     Len(scenarios))

\* _ensure_ac_coverage
EnsureAcCoverage(scenarios, acceptance_criteria) ==
    scenarios \o AdditionalScenarios(scenarios, acceptance_criteria, 1,
                                     Len(scenarios) + 1)

\* _validate_ac_references
ValidateAcReferences(scenarios, acceptance_criteria) ==
    LET valid_ac_ids == {acceptance_criteria[k].id : k \in 1..Len(acceptance_criteria)}
        IsValidRef(ac_id) == ac_id \in valid_ac_ids
        Cleaned(sc) == [sc EXCEPT !.related_requirements =
                           SelectSeq(sc.related_requirements, IsValidRef)]
        HasValidRef(sc) == Cleaned(sc).related_requirements # <<>>
        kept == SelectSeq(scenarios, HasValidRef)
    IN  [k \in 1..Len(kept) |-> Cleaned(kept[k])]

\* _post_process_scenarios
PostProcessScenarios(scenarios, acceptance_criteria) ==
    ValidateAcReferences(
        EnsureAcCoverage(FixScenarioIds(scenarios), acceptance_criteria),
        acceptance_criteria)

(***************************************************************************)
(* G1Validator and CoverageCritic (nodes/critic.py)                        *)
(***************************************************************************)
MaxCriticACs == 2         \* acceptance criteria handed to the critic
MaxCriticScenarios == 2   \* scenarios handed to the critic
MaxCriticCases == 2       \* test cases handed to the critic

\* list(a_set): some enumeration of the set; the order Python gives is not
\* specified and nothing below depends on it.
RECURSIVE SetToSeq(_)
SetToSeq(S) ==
    IF S = {} THEN <<>>
    ELSE LET x == CHOOSE x \in S : TRUE IN <<x>> \o SetToSeq(S \ {x})

\* The scenario IDs of the model in alphabetical (str) order.
MaxScenarioIds == 8       \* further scenario IDs a whole run can hand over
ScenarioIdOrder ==
    [k \in 1..(MaxCriticScenarios + MaxScenarioIds) |-> SCNId(k)] \o <<"SCN-999">>

IdRank(id) == CHOOSE k \in 1..Len(ScenarioIdOrder) : ScenarioIdOrder[k] = id

\* list.sort() on scenario IDs (insertion into the sorted tail)
RECURSIVE SortIds(_)
SortIds(ids) ==
    IF ids = <<>> THEN <<>>
    ELSE LET rest == SortIds(Tail(ids))
             IsBefore(x) == IdRank(x) < IdRank(Head(ids))
             IsNotBefore(x) == ~IsBefore(x)
         IN  SelectSeq(rest, IsBefore) \o <<Head(ids)>>
             \o SelectSeq(rest, IsNotBefore)

\* How often x occurs in the list s
Count(s, x) == Cardinality({k \in 1..Len(s) : s[k] = x})

\* x repeated n times
Repeat(x, n) == [k \in 1..n |-> x]

\* The list s concatenated n times
RECURSIVE Times(_, _)
Times(s, n) == IF n = 0 THEN <<>> ELSE s \o Times(s, n - 1)

\* ac_to_scenarios[ac_id] before sorting: one entry per occurrence of ac_id in
\* a scenario's related_requirements, scenarios in list order.
RECURSIVE CoveringScenarioIds(_, _)
CoveringScenarioIds(scenarios, ac_id) ==
    IF scenarios = <<>> THEN <<>>
    ELSE Repeat(Head(scenarios).id,
                Count(Head(scenarios).related_requirements, ac_id))
         \o CoveringScenarioIds(Tail(scenarios), ac_id)

\* CoverageCritic._build_coverage_map: the dict ac_to_scenarios
BuildCoverageMap(scenarios) ==
    LET keys == UNION {Range(scenarios[k].related_requirements) :
                          k \in 1..Len(scenarios)}
    IN  [ac_id \in keys |-> SortIds(CoveringScenarioIds(scenarios, ac_id))]

\* A gate that returns without raising.
GatePassed == [raised |-> FALSE, violated_rules |-> <<>>, offending_ids |-> <<>>]

\* raise G1ValidationError(violated_rules, offending_ids, ...)
G1ValidationError(violated_rules, offending_ids) ==
    [raised |-> TRUE, violated_rules |-> violated_rules,
     offending_ids |-> offending_ids]

\* validate_g1_1 reporting every AC ID instead of the uncovered ones
validate_g1_1_AllAcs(acceptance_criteria, scenarios) ==
    LET coverage_map == BuildCoverageMap(scenarios)
        all_ac_ids == {acceptance_criteria[k].id : k \in 1..Len(acceptance_criteria)}
        covered_ac_ids == DOMAIN coverage_map
        uncovered_acs == all_ac_ids \ covered_ac_ids
    IN  IF uncovered_acs # {}
        THEN G1ValidationError(<<"G1.1">>, SetToSeq(all_ac_ids))
        ELSE GatePassed

\* G1Validator.validate_g1_1
validate_g1_1(acceptance_criteria, scenarios) ==
    LET coverage_map == BuildCoverageMap(scenarios)
        all_ac_ids == {acceptance_criteria[k].id : k \in 1..Len(acceptance_criteria)}
        covered_ac_ids == DOMAIN coverage_map
        uncovered_acs == all_ac_ids \ covered_ac_ids
    IN  IF uncovered_acs # {}
        THEN G1ValidationError(<<"G1.1">>, SetToSeq(uncovered_acs))
        ELSE GatePassed

\* validate_g1_2 with the set difference taken the other way round
validate_g1_2_Reversed(scenarios, test_cases) ==
    LET scenario_ids == {scenarios[k].id : k \in 1..Len(scenarios)}
        covered_scenario_ids == {test_cases[k].scenario_id : k \in 1..Len(test_cases)}
        uncovered_scenarios == covered_scenario_ids \ scenario_ids
    IN  IF uncovered_scenarios # {}
        THEN G1ValidationError(<<"G1.2">>, SetToSeq(uncovered_scenarios))
        ELSE GatePassed

\* G1Validator.validate_g1_2
validate_g1_2(scenarios, test_cases) ==
    LET scenario_ids == {scenarios[k].id : k \in 1..Len(scenarios)}
        covered_scenario_ids == {test_cases[k].scenario_id : k \in 1..Len(test_cases)}
        uncovered_scenarios == scenario_ids \ covered_scenario_ids
    IN  IF uncovered_scenarios # {}
        THEN G1ValidationError(<<"G1.2">>, SetToSeq(uncovered_scenarios))
        ELSE GatePassed

\* ac_to_cases[ac_id] of G1Validator._build_ac_to_test_cases_map: for every
\* scenario in list order and every occurrence of ac_id in its
\* related_requirements, the test cases whose scenario_id is the scenario's ID.
RECURSIVE AcToCases(_, _, _)
AcToCases(scenarios, test_cases, ac_id) ==
    IF scenarios = <<>> THEN <<>>
    ELSE LET OfHead(tc) == tc.scenario_id = Head(scenarios).id
             scenario_cases == SelectSeq(test_cases, OfHead)
             n == Count(Head(scenarios).related_requirements, ac_id)
         IN  Times(scenario_cases, n)
             \o AcToCases(Tail(scenarios), test_cases, ac_id)

\* The loop of validate_g1_3 over the AC list: the (violations, offending_ids)
\* appended for the ACs from position i on.
RECURSIVE G13Loop(_, _, _, _)
G13Loop(acceptance_criteria, scenarios, test_cases, i) ==
    IF i > Len(acceptance_criteria)
    THEN [violations |-> <<>>, offending_ids |-> <<>>]
    ELSE LET ac == acceptance_criteria[i]
             ac_test_cases == AcToCases(scenarios, test_cases, ac.id)
             IsPositive(tc) == ~tc.negative
             IsNegative(tc) == tc.negative
             no_positive == SelectSeq(ac_test_cases, IsPositive) = <<>>
             no_negative == SelectSeq(ac_test_cases, IsNegative) = <<>>
             here == (IF no_positive THEN <<ac.id>> ELSE <<>>)
                     \o (IF no_negative THEN <<ac.id>> ELSE <<>>)
             rest == G13Loop(acceptance_criteria, scenarios, test_cases, i + 1)
         IN  [violations |-> Repeat("G1.3", Len(here)) \o rest.violations,
              offending_ids |-> here \o rest.offending_ids]

\* validate_g1_3 raising the two lists as the loop appended them
validate_g1_3_NoDedup(acceptance_criteria, scenarios, test_cases) ==
    LET found == G13Loop(acceptance_criteria, scenarios, test_cases, 1)
    IN  IF found.violations # <<>>
        THEN G1ValidationError(found.violations, found.offending_ids)
        ELSE GatePassed

\* G1Validator.validate_g1_3
validate_g1_3(acceptance_criteria, scenarios, test_cases) ==
    LET found == G13Loop(acceptance_criteria, scenarios, test_cases, 1)
    IN  IF found.violations # <<>>
        THEN G1ValidationError(SetToSeq(Range(found.violations)),
                               SetToSeq(Range(found.offending_ids)))
        ELSE GatePassed

\* _find_duplicates adding every item, seen before or not
FindDuplicates_All(items) == {items[k] : k \in 1..Len(items)}

\* G1Validator._find_duplicates
FindDuplicates(items) ==
    {items[k] : k \in {k \in 1..Len(items) : \E j \in 1..(k - 1) : items[j] = items[k]}}

\* [x.id for x in items]
Ids(items) == [k \in 1..Len(items) |-> items[k].id]

\* G1Validator.validate_g1_4
validate_g1_4(acceptance_criteria, scenarios, test_cases) ==
    LET ac_ids == Ids(acceptance_criteria)
        duplicate_ac_ids == FindDuplicates(ac_ids)
        scenario_ids == Ids(scenarios)
        duplicate_scenario_ids == FindDuplicates(scenario_ids)
        test_case_ids == Ids(test_cases)
        duplicate_tc_ids == FindDuplicates(test_case_ids)
        valid_ac_ids == Range(ac_ids)
        HasInvalidAcRef(scenario) ==
            \E k \in 1..Len(scenario.related_requirements) :
                scenario.related_requirements[k] \notin valid_ac_ids
        bad_scenarios == Ids(SelectSeq(scenarios, HasInvalidAcRef))
        valid_scenario_ids == Range(scenario_ids)
        HasInvalidScenarioRef(tc) == tc.scenario_id \notin valid_scenario_ids
        bad_cases == Ids(SelectSeq(test_cases, HasInvalidScenarioRef))
        violations ==
            (IF duplicate_ac_ids # {} THEN <<"G1.4">> ELSE <<>>)
            \o (IF duplicate_scenario_ids # {} THEN <<"G1.4">> ELSE <<>>)
            \o (IF duplicate_tc_ids # {} THEN <<"G1.4">> ELSE <<>>)
            \o Repeat("G1.4", Len(bad_scenarios))
            \o Repeat("G1.4", Len(bad_cases))
        offending_ids ==
            SetToSeq(duplicate_ac_ids) \o SetToSeq(duplicate_scenario_ids)
            \o SetToSeq(duplicate_tc_ids) \o bad_scenarios \o bad_cases
    IN  IF violations # <<>>
        THEN G1ValidationError(SetToSeq(Range(violations)),
                               SetToSeq(Range(offending_ids)))
        ELSE GatePassed

\* The gates in the order validate_all_gates calls them.
GateOrder == <<"G1.1", "G1.2", "G1.3", "G1.4">>

RunGate(gate, acceptance_criteria, scenarios, test_cases) ==
    IF gate = "G1.1" THEN validate_g1_1(acceptance_criteria, scenarios)
    ELSE IF gate = "G1.2" THEN validate_g1_2(scenarios, test_cases)
    ELSE IF gate = "G1.3"
    THEN validate_g1_3(acceptance_criteria, scenarios, test_cases)
    ELSE validate_g1_4(acceptance_criteria, scenarios, test_cases)

\* The four try/except blocks of validate_all_gates from the n-th on: every
\* gate is called, and what a raising gate carries is appended to the two
\* lists (extend, no de-duplication).
RECURSIVE AccumulateGates(_, _, _, _, _)
AccumulateGates(n, acc, acceptance_criteria, scenarios, test_cases) ==
    IF n > Len(GateOrder) THEN acc
    ELSE LET e == RunGate(GateOrder[n], acceptance_criteria, scenarios, test_cases)
             next ==
                 [violations |-> acc.violations \o e.violated_rules,
                  offending_ids |-> acc.offending_ids \o e.offending_ids,
                  evaluated |-> Append(acc.evaluated, GateOrder[n])]
         IN  AccumulateGates(n + 1, next, acceptance_criteria, scenarios, test_cases)

\* G1Validator.validate_all_gates. details holds the two numbers of the detail
\* string: len(violations) and len(set(offending_ids)).
validate_all_gates(acceptance_criteria, scenarios, test_cases) ==
    LET acc == AccumulateGates(1,
                   [violations |-> <<>>, offending_ids |-> <<>>, evaluated |-> <<>>],
                   acceptance_criteria, scenarios, test_cases)
    IN  [raised |-> acc.violations # <<>>,
         violated_rules |-> acc.violations,
         offending_ids |-> acc.offending_ids,
         details |-> IF acc.violations # <<>>
                     THEN <<Len(acc.violations), Cardinality(Range(acc.offending_ids))>>
                     ELSE <<>>,
         evaluated |-> acc.evaluated]

\* models.py OpenQuestion.validate_question_id: v.startswith('Q-') and
\* v[2:].isdigit()

ValidQuestionId(v) ==
    /\ Len(v) >= 3
    /\ v[1] = "Q"
    /\ v[2] = "-"
    /\ \A k \in 3..Len(v) : v[k] \in Range(Digits)

\* f"Q-{i:03d}" as characters (i < 1000 in every list the model builds)
QId(i) ==
    <<"Q", "-", Digits[((i \div 100) % 10) + 1], Digits[((i \div 10) % 10) + 1],
      Digits[(i % 10) + 1]>>

\* OpenQuestion(id=..., ...): the record, or the ValidationError its id
\* validator raises.
OpenQuestion(id, topic, blocking, related_requirements) ==
    IF ValidQuestionId(id)
    THEN [ok |-> TRUE, id |-> id, topic |-> topic, blocking |-> blocking,
          related_requirements |-> related_requirements]
    ELSE [ok |-> FALSE, id |-> id, topic |-> topic, blocking |-> blocking,
          related_requirements |-> related_requirements]

\* any(word in text for word in words)
AnyWordIn(text, words) == \E word \in words : Contains(text, word)

VagueWords ==
    {<<"a", "p", "p", "r", "o", "p", "r", "i", "a", "t", "e">>,
     <<"p", "r", "o", "p", "e", "r">>,
     <<"s", "u", "i", "t", "a", "b", "l", "e">>,
     <<"r", "e", "a", "s", "o", "n", "a", "b", "l", "e">>}
ErrorDetailWords ==
    {<<"m", "e", "s", "s", "a", "g", "e">>,
     <<"c", "o", "d", "e">>,
     <<"s", "t", "a", "t", "u", "s">>}
ValidationWords ==
    {<<"v", "a", "l", "i", "d", "a", "t", "e">>,
     <<"f", "o", "r", "m", "a", "t">>,
     <<"v", "a", "l", "i", "d">>}
SuggestsValidationWords ==
    {<<"r", "e", "q", "u", "i", "r", "e", "d">>,
     <<"m", "u", "s", "t">>,
     <<"v", "a", "l", "i", "d", "a", "t", "e">>,
     <<"c", "h", "e", "c", "k">>,
     <<"v", "e", "r", "i", "f", "y">>,
     <<"f", "o", "r", "m", "a", "t">>}
IntegrationWords ==
    {<<"a", "p", "i">>,
     <<"s", "e", "r", "v", "i", "c", "e">>,
     <<"e", "x", "t", "e", "r", "n", "a", "l">>,
     <<"t", "h", "i", "r", "d", "-", "p", "a", "r", "t", "y">>}
WordError == <<"e", "r", "r", "o", "r">>
WordFormat == <<"f", "o", "r", "m", "a", "t">>
WordZip == <<"z", "i", "p">>
WordCode == <<"c", "o", "d", "e">>
WordEmail == <<"e", "m", "a", "i", "l">>
WordPhone == <<"p", "h", "o", "n", "e">>
WordConcurrent == <<"c", "o", "n", "c", "u", "r", "r", "e", "n", "t">>

\* Flatten a list of lists
RECURSIVE Flatten(_)
Flatten(ss) == IF ss = <<>> THEN <<>> ELSE Head(ss) \o Flatten(Tail(ss))

\* The questions _identify_specification_gaps builds for one AC
SpecificationGapsOf(ac, text_lower) ==
    (IF AnyWordIn(text_lower, VagueWords)
     THEN <<OpenQuestion(<<>>, "vague language", FALSE, <<ac.id>>)>> ELSE <<>>)
    \o (IF Contains(text_lower, WordError) /\ ~AnyWordIn(text_lower, ErrorDetailWords)
        THEN <<OpenQuestion(<<>>, "error details", TRUE, <<ac.id>>)>> ELSE <<>>)
    \o (IF AnyWordIn(text_lower, ValidationWords) /\ ~Contains(text_lower, WordFormat)
        THEN <<OpenQuestion(<<>>, "validation format", TRUE, <<ac.id>>)>> ELSE <<>>)

\* CoverageCritic._identify_specification_gaps
IdentifySpecificationGaps(acceptance_criteria) ==
    Flatten([k \in 1..Len(acceptance_criteria) |->
        SpecificationGapsOf(acceptance_criteria[k],
                            Lower(acceptance_criteria[k].text))])

\* getattr(tc, 'related_requirements', []): TestCase has no such field
TestCaseRelatedRequirements(tc) == <<>>

\* The questions _identify_error_handling_gaps builds for one AC
ErrorHandlingGapsOf(ac, text_lower, test_cases) ==
    IF AnyWordIn(text_lower, SuggestsValidationWords)
    THEN LET OfAc(tc) == ac.id \in Range(TestCaseRelatedRequirements(tc))
             ac_test_cases == SelectSeq(test_cases, OfAc)
             IsNegative(tc) == tc.negative
             negative_cases == SelectSeq(ac_test_cases, IsNegative)
         IN  IF negative_cases = <<>>
             THEN <<OpenQuestion(<<>>, "no negative test cases", TRUE, <<ac.id>>)>>
             ELSE <<>>
    ELSE <<>>

\* CoverageCritic._identify_error_handling_gaps
IdentifyErrorHandlingGaps(acceptance_criteria, test_cases) ==
    Flatten([k \in 1..Len(acceptance_criteria) |->
        ErrorHandlingGapsOf(acceptance_criteria[k],
                            Lower(acceptance_criteria[k].text), test_cases)])

\* CoverageCritic._identify_integration_questions
IdentifyIntegrationQuestions(acceptance_criteria, scenarios) ==
    LET IsIntegration(sc) == sc.type = "integration"
        integration_scenarios == SelectSeq(scenarios, IsIntegration)
    IN  Flatten([k \in 1..Len(integration_scenarios) |->
            IF AnyWordIn(Lower(integration_scenarios[k].title), IntegrationWords)
            THEN <<OpenQuestion(<<>>, "external integration", FALSE,
                                integration_scenarios[k].related_requirements)>>
            ELSE <<>>])

\* The questions _identify_data_validation_questions builds for one AC
DataValidationQuestionsOf(ac, text_lower) ==
    (IF Contains(text_lower, WordZip) /\ Contains(text_lower, WordCode)
     THEN <<OpenQuestion(<<>>, "ZIP codes", FALSE, <<ac.id>>)>> ELSE <<>>)
    \o (IF Contains(text_lower, WordEmail)
        THEN <<OpenQuestion(<<>>, "email", FALSE, <<ac.id>>)>> ELSE <<>>)
    \o (IF Contains(text_lower, WordPhone)
        THEN <<OpenQuestion(<<>>, "phone numbers", FALSE, <<ac.id>>)>> ELSE <<>>)

\* CoverageCritic._identify_data_validation_questions
IdentifyDataValidationQuestions(acceptance_criteria, test_cases) ==
    Flatten([k \in 1..Len(acceptance_criteria) |->
        DataValidationQuestionsOf(acceptance_criteria[k],
                                  Lower(acceptance_criteria[k].text))])

\* CoverageCritic._identify_edge_case_questions. The test
\* len(boundary_cases) < len(scenarios) * 0.2 is written in integers.
IdentifyEdgeCaseQuestions(scenarios, test_cases) ==
    LET IsBoundary(tc) == tc.case_type = "boundary"
        boundary_cases == SelectSeq(test_cases, IsBoundary)
        has_concurrent_tests ==
            \E k \in 1..Len(test_cases) :
                /\ test_cases[k].steps # <<>>
                /\ Contains(Lower(test_cases[k].steps[1]), WordConcurrent)
    IN  (IF 5 * Len(boundary_cases) < Len(scenarios)
         THEN <<OpenQuestion(<<>>, "boundary coverage", FALSE, <<>>)>> ELSE <<>>)
        \o (IF ~has_concurrent_tests /\ Len(test_cases) > 10
            THEN <<OpenQuestion(<<>>, "concurrent access", FALSE, <<>>)>> ELSE <<>>)

\* The five heuristics of _generate_open_questions, concatenated in order.
HeuristicQuestions(acceptance_criteria, scenarios, test_cases) ==
    IdentifySpecificationGaps(acceptance_criteria)
    \o IdentifyErrorHandlingGaps(acceptance_criteria, test_cases)
    \o IdentifyIntegrationQuestions(acceptance_criteria, scenarios)
    \o IdentifyDataValidationQuestions(acceptance_criteria, test_cases)
    \o IdentifyEdgeCaseQuestions(scenarios, test_cases)

\* The ID assignment loop of _generate_open_questions over built questions
NumberQuestions(questions) ==
    [k \in 1..Len(questions) |-> [questions[k] EXCEPT !.id = QId(k)]]

\* The tail of _generate_open_questions once the heuristics have built the
\* list: a question whose construction failed has already ended the call with
\* that ValidationError; otherwise the questions are numbered by assignment.
NumberOrRaise(questions) ==
    IF \E k \in 1..Len(questions) : ~questions[k].ok
    THEN [raised |-> TRUE, questions |-> <<>>]
    ELSE [raised |-> FALSE, questions |-> NumberQuestions(questions)]

\* CoverageCritic._generate_open_questions
GenerateOpenQuestions(acceptance_criteria, scenarios, test_cases, coverage_map) ==
    NumberOrRaise(HeuristicQuestions(acceptance_criteria, scenarios, test_cases))

\* Steps 2 and 3 of CoverageCritic.process, reached when no gate failed
ProcessAfterGates(coverage_map, open_questions) ==
    IF open_questions.raised
    THEN [outcome |-> "ValidationError",
          violated_rules |-> <<>>, offending_ids |-> <<>>,
          coverage_map |-> <<>>, open_questions |-> <<>>]
    ELSE [outcome |-> "returned",
          violated_rules |-> <<>>, offending_ids |-> <<>>,
          coverage_map |-> coverage_map,
          open_questions |-> open_questions.questions]

\* Step 1 of CoverageCritic.process: a failing gate ends the call.
ProcessWithGates(gates, acceptance_criteria, scenarios, test_cases) ==
    IF gates.raised
    THEN [outcome |-> "G1ValidationError",
          violated_rules |-> gates.violated_rules,
          offending_ids |-> gates.offending_ids,
          coverage_map |-> <<>>, open_questions |-> <<>>]
    ELSE ProcessAfterGates(
             BuildCoverageMap(scenarios),
             GenerateOpenQuestions(acceptance_criteria, scenarios, test_cases,
                                   BuildCoverageMap(scenarios)))

\* CoverageCritic.process
CriticProcess(acceptance_criteria, scenarios, test_cases) ==
    ProcessWithGates(
        validate_all_gates(acceptance_criteria, scenarios, test_cases),
        acceptance_criteria, scenarios, test_cases)

(***************************************************************************)
(* Inputs of the critic.                                                   *)
(***************************************************************************)
TextUserCanLogIn ==
    <<"U", "s", "e", "r", " ", "c", "a", "n", " ", "l", "o", "g", " ", "i", "n">>
TextZipRequired ==
    <<"Z", "I", "P", " ", "c", "o", "d", "e", " ", "i", "s", " ", "r", "e", "q", "u", "i", "r", "e", "d">>
TitleExternalApi ==
    <<"E", "x", "t", "e", "r", "n", "a", "l", " ", "A", "P", "I", " ", "c", "a", "l", "l">>

CriticACTexts == <<TextUserCanLogIn, TextZipRequired>>

\* Which ID space, if any, holds a duplicate: the last element of that list
\* then carries the ID of the first.
DupKinds == {"none", "ac", "scenario", "test_case"}

LastIsDuplicate(dup, space, k, n) == dup = space /\ k = n /\ n >= 2

SampleACs(n, dup) ==
    [k \in 1..n |->
        [id |-> IF LastIsDuplicate(dup, "ac", k, n) THEN ACId(1) ELSE ACId(k),
         text |-> CriticACTexts[((k - 1) % 2) + 1]]]

\* related_requirements a critic scenario may carry (AC9 is no AC of any
\* sample list)
RelatedChoices == {<<"AC1">>, <<"AC1", "AC2">>, <<"AC2", "AC9">>}

CriticScenario(k, n, dup, related) ==
    [id |-> IF LastIsDuplicate(dup, "scenario", k, n) THEN SCNId(1) ELSE SCNId(k),
     title |-> IF k % 2 = 1 THEN TitleValidLogin ELSE TitleExternalApi,
     type |-> IF k % 2 = 1 THEN "functional" ELSE "integration",
     risk |-> "medium",
     related_requirements |-> related]

CriticScenarioLists(dup) ==
    UNION {{[k \in 1..n |-> CriticScenario(k, n, dup, rel[k])] :
              rel \in [1..n -> RelatedChoices]} : n \in 0..MaxCriticScenarios}

\* (scenario_id, negative) of a critic test case
CaseShapes == {"SCN-001", "SCN-002", "SCN-999"} \X BOOLEAN

CriticCase(k, n, dup, shape) ==
    [id |-> IF LastIsDuplicate(dup, "test_case", k, n) THEN TCId(1) ELSE TCId(k),
     scenario_id |-> shape[1],
     case_type |-> IF shape[2] THEN "negative"
                   ELSE IF k % 2 = 1 THEN "boundary" ELSE "functional",
     priority |-> "P1",
     steps |-> <<TextStep>>,
     expected |-> <<"Result">>,
     negative |-> shape[2],
     tags |-> <<>>]

CriticCaseLists(dup) ==
    UNION {{[k \in 1..n |-> CriticCase(k, n, dup, shape[k])] :
              shape \in [1..n -> CaseShapes]} : n \in 0..MaxCriticCases}

(***************************************************************************)
(* Inputs of the generator: scenario lists as the synthesizer numbers them *)
(* (SCN-001, SCN-002, ...), and the responses the LLM may give per batch.  *)
(***************************************************************************)
MaxScenarios == 6    \* scenarios handed to CaseGenerator.process
MaxCases == 2        \* test cases in one LLM response

Risks == <<"high", "medium", "low">>
ScenarioTypes == <<"functional", "integration", "e2e">>
SampleTitles == <<TitleValidLogin, TitleInvalidZip>>
Shifts == {0, 1, 2}
Policies == {"risk_weighted", "uniform", "None"}

\* The k-th scenario of a sample list: risk and type rotate with the shift,
\* the title alternates, so over the lists every risk meets both titles.
SampleScenario(k, shift) ==
    [id |-> SCNId(k),
     title |-> SampleTitles[((k - 1) % 2) + 1],
     type |-> ScenarioTypes[((k - 1 + shift) % 3) + 1],
     risk |-> Risks[((k - 1 + shift) % 3) + 1],
     related_requirements |-> <<"AC1">>]

SampleScenarioLists ==
    {[k \in 1..n |-> SampleScenario(k, shift)] :
        n \in 0..MaxScenarios, shift \in Shifts}

\* (case_type, negative) pairs an LLM case may carry
LLMCaseKinds == {<<"functional", FALSE>>, <<"negative", TRUE>>, <<"boundary", TRUE>>}

\* The test cases a validated TestCaseGenerationResponse may hold for a batch
\* (models.py TestCase: non-empty steps and expected, well-formed IDs), all
\* with the priority prio the LLM proposes.
LLMCases(batch, prio) ==
    {[id |-> "TC-042",
      scenario_id |-> sid,
      case_type |-> kind[1],
      priority |-> prio,
      steps |-> <<TextStep>>,
      expected |-> <<"Result">>,
      negative |-> kind[2],
      tags |-> <<>>] :
        sid \in {batch[1].id, "SCN-999"}, kind \in LLMCaseKinds}

LLMResponses(batch) ==
    UNION {SeqsUpTo(LLMCases(batch, prio), MaxCases) : prio \in {"P0", "P3"}}

GenIdle ==
    /\ g_pc = "idle"
    /\ g_policy = "None"
    /\ g_scenarios = <<>>
    /\ g_i = 0
    /\ all_test_cases = <<>>
    /\ g_returned = <<>>

ParserIdle ==
    /\ p_pc = "idle"
    /\ p_criteria = <<>>
    /\ p_normalized = <<>>

CriticIdle ==
    /\ c_op = "idle"
    /\ c_acs = <<>>
    /\ c_scenarios = <<>>
    /\ c_test_cases = <<>>
    /\ c_result = <<>>

SynthIdle ==
    /\ s_pc = "idle"
    /\ s_acs = <<>>
    /\ s_raw = <<>>
    /\ s_scenarios = <<>>

NodesIdle == ParserIdle /\ GenIdle /\ CriticIdle /\ SynthIdle

ExtIdle ==
    wf = Idle /\ rt = Idle /\ fa = Idle /\ cli = Idle /\ eng = Idle /\ cfg = Idle /\ repl = Idle

(***************************************************************************)
(* Specification of the parser: normalize one raw AC list.                 *)
(***************************************************************************)
InitParser ==
    /\ p_pc = "start"
    /\ p_criteria \in SeqsUpTo(RawStrings, MaxCriteria)
    /\ p_normalized = <<>>
    /\ GenIdle
    /\ CriticIdle
    /\ SynthIdle
    /\ ExtIdle

Normalize ==
    /\ p_pc = "start"
    /\ p_normalized' = NormalizeAcceptanceCriteria(p_criteria)
    /\ p_pc' = "done"
    /\ UNCHANGED <<p_criteria, genVars, criticVars, synthVars>>
    /\ UNCHANGED extVars

NextParser == Normalize

SpecParser == InitParser /\ [][NextParser]_vars

(***************************************************************************)
(* Specification of CaseGenerator.process: one action per loop iteration   *)
(* (generate the batch, post-process it, extend the accumulator), one for  *)
(* the return, one for the LLM call failing after its retries.             *)
(***************************************************************************)
InitGen ==
    /\ g_pc = "loop"
    /\ g_policy \in Policies
    /\ g_scenarios \in SampleScenarioLists
    /\ g_i = 0
    /\ all_test_cases = <<>>
    /\ g_returned = <<>>
    /\ ParserIdle
    /\ CriticIdle
    /\ SynthIdle
    /\ ExtIdle

ProcessBatch ==
    /\ g_pc = "loop"
    /\ g_i < Len(g_scenarios)
    /\ LET batch == Batch(g_scenarios, g_i)
       IN  \E batch_cases \in LLMResponses(batch) :
              all_test_cases' = all_test_cases
                  \o PostProcessTestCases(batch_cases, batch, g_policy)
    /\ g_i' = g_i + batch_size
    /\ UNCHANGED <<g_pc, g_policy, g_scenarios, g_returned,
                   parserVars, criticVars, synthVars>>
    /\ UNCHANGED extVars

\* generate_with_validation raises (JSONValidationError, LLMRuntimeError):
\* process propagates it and returns nothing.
GenerateFails ==
    /\ g_pc = "loop"
    /\ g_i < Len(g_scenarios)
    /\ g_pc' = "raised"
    /\ UNCHANGED <<g_policy, g_scenarios, g_i, all_test_cases, g_returned,
                   parserVars, criticVars, synthVars>>
    /\ UNCHANGED extVars

ProcessReturn ==
    /\ g_pc = "loop"
    /\ g_i >= Len(g_scenarios)
    /\ g_returned' = all_test_cases
    /\ g_pc' = "done"
    /\ UNCHANGED <<g_policy, g_scenarios, g_i, all_test_cases,
                   parserVars, criticVars, synthVars>>
    /\ UNCHANGED extVars

NextGen == ProcessBatch \/ GenerateFails \/ ProcessReturn

SpecGen == InitGen /\ [][NextGen]_vars

(***************************************************************************)
(* Specification of ScenarioSynthesizer.process: the LLM call answers with *)
(* a validated scenario list, which is post-processed; or the call fails.  *)
(***************************************************************************)
\* related_requirements the LLM may return (models.py accepts any list of
\* well-formed AC IDs, the empty list included; AC9 is no AC of the input)
RawRelatedChoices == {<<>>, <<"AC1">>, <<"AC2">>, <<"AC1", "AC9">>, <<"AC9">>}

\* The scenarios of a validated ScenarioGenerationResponse; the LLM's own IDs
\* collide.
RawScenarios ==
    {[id |-> "SCN-001", title |-> title, type |-> "functional", risk |-> "high",
      related_requirements |-> related] :
        title \in {TitleValidLogin, TitleInvalidZip}, related \in RawRelatedChoices}

InitSynth ==
    /\ s_pc = "start"
    /\ s_acs \in {SampleACs(n, "none") : n \in 0..MaxSynthACs}
    /\ s_raw = <<>>
    /\ s_scenarios = <<>>
    /\ ParserIdle
    /\ GenIdle
    /\ CriticIdle
    /\ ExtIdle

Synthesize ==
    /\ s_pc = "start"
    /\ \E raw \in SeqsUpTo(RawScenarios, MaxRawScenarios) :
          /\ s_raw' = raw
          /\ s_scenarios' = PostProcessScenarios(raw, s_acs)
    /\ s_pc' = "done"
    /\ UNCHANGED <<s_acs, parserVars, genVars, criticVars>>
    /\ UNCHANGED extVars

\* generate_with_validation raises: process propagates it.
SynthesizeFails ==
    /\ s_pc = "start"
    /\ s_pc' = "raised"
    /\ UNCHANGED <<s_acs, s_raw, s_scenarios, parserVars, genVars, criticVars>>
    /\ UNCHANGED extVars

NextSynth == Synthesize \/ SynthesizeFails

SpecSynth == InitSynth /\ [][NextSynth]_vars

(***************************************************************************)
(* Specification of the critic: one call of one of its operations on one   *)
(* input triple.                                                           *)
(***************************************************************************)
InitCritic ==
    /\ c_op = "none"
    /\ \E dup \in DupKinds :
          /\ c_acs \in {SampleACs(n, dup) : n \in 0..MaxCriticACs}
          /\ c_scenarios \in CriticScenarioLists(dup)
          /\ c_test_cases \in CriticCaseLists(dup)
    /\ c_result = <<>>
    /\ ParserIdle
    /\ GenIdle
    /\ SynthIdle
    /\ ExtIdle

ValidateG1_1 ==
    /\ c_op = "none"
    /\ c_op' = "validate_g1_1"
    /\ c_result' = validate_g1_1(c_acs, c_scenarios)
    /\ UNCHANGED <<c_acs, c_scenarios, c_test_cases, parserVars, genVars, synthVars>>
    /\ UNCHANGED extVars

ValidateG1_2 ==
    /\ c_op = "none"
    /\ c_op' = "validate_g1_2"
    /\ c_result' = validate_g1_2(c_scenarios, c_test_cases)
    /\ UNCHANGED <<c_acs, c_scenarios, c_test_cases, parserVars, genVars, synthVars>>
    /\ UNCHANGED extVars

ValidateG1_3 ==
    /\ c_op = "none"
    /\ c_op' = "validate_g1_3"
    /\ c_result' = validate_g1_3(c_acs, c_scenarios, c_test_cases)
    /\ UNCHANGED <<c_acs, c_scenarios, c_test_cases, parserVars, genVars, synthVars>>
    /\ UNCHANGED extVars

ValidateG1_4 ==
    /\ c_op = "none"
    /\ c_op' = "validate_g1_4"
    /\ c_result' = validate_g1_4(c_acs, c_scenarios, c_test_cases)
    /\ UNCHANGED <<c_acs, c_scenarios, c_test_cases, parserVars, genVars, synthVars>>
    /\ UNCHANGED extVars

ValidateAllGates ==
    /\ c_op = "none"
    /\ c_op' = "validate_all_gates"
    /\ c_result' = validate_all_gates(c_acs, c_scenarios, c_test_cases)
    /\ UNCHANGED <<c_acs, c_scenarios, c_test_cases, parserVars, genVars, synthVars>>
    /\ UNCHANGED extVars

Process ==
    /\ c_op = "none"
    /\ c_op' = "process"
    /\ c_result' = CriticProcess(c_acs, c_scenarios, c_test_cases)
    /\ UNCHANGED <<c_acs, c_scenarios, c_test_cases, parserVars, genVars, synthVars>>
    /\ UNCHANGED extVars

NextCritic ==
    \/ ValidateG1_1
    \/ ValidateG1_2
    \/ ValidateG1_3
    \/ ValidateG1_4
    \/ ValidateAllGates
    \/ Process

SpecCritic == InitCritic /\ [][NextCritic]_vars

\* The surviving (non-blank) entries of the input, trimmed, in input order.
RECURSIVE Survivors(_)
Survivors(criteria) ==
    IF criteria = <<>> THEN <<>>
    ELSE IF Strip(Head(criteria)) = <<>> THEN Survivors(Tail(criteria))
         ELSE <<Strip(Head(criteria))>> \o Survivors(Tail(criteria))

\* C2: the k surviving entries get exactly the IDs AC1..ACk, in input order,
\* with their trimmed text, whatever the positions of the dropped entries.
C2_GaplessIds ==
    p_pc = "done" =>
        /\ Len(p_normalized) = Len(Survivors(p_criteria))
        /\ \A k \in 1..Len(p_normalized) :
              /\ p_normalized[k].id = ACId(k)
              /\ p_normalized[k].text = Survivors(p_criteria)[k]

\* C1: the returned test cases carry TC-001, TC-002, ..., TC-n in output
\* order (sequential across all batches), hence pairwise distinct IDs.
C1_GlobalSequentialIds ==
    g_pc = "done" =>
        /\ \A k \in 1..Len(g_returned) : g_returned[k].id = TCId(k)
        /\ \A j, k \in 1..Len(g_returned) :
              j # k => g_returned[j].id # g_returned[k].id

\* The priority table of the claim, by policy, parent risk, negative flag
\* and case type.
C10_Table(policy, risk, negative, case_type) ==
    IF policy = "uniform"
    THEN IF case_type = "boundary" THEN "P3"
         ELSE IF negative THEN "P2" ELSE "P1"
    ELSE IF risk = "high" THEN (IF negative THEN "P1" ELSE "P0")
         ELSE IF risk = "medium" THEN (IF negative THEN "P2" ELSE "P1")
         ELSE (IF negative THEN "P3" ELSE "P2")

\* The risk of the scenario of the input list that carries the given ID.
C10_ParentRisk(scenario_id) ==
    LET k == CHOOSE k \in 1..Len(g_scenarios) : g_scenarios[k].id = scenario_id
    IN  g_scenarios[k].risk

\* C10: the final priority of every returned test case is the table's value
\* for the policy, the parent scenario's risk, the negative flag and the case
\* type, whatever priority the LLM proposed or coverage completion gave.
C10_PriorityByPolicy ==
    g_pc = "done" =>
        \A k \in 1..Len(g_returned) :
            g_returned[k].priority =
                C10_Table(IF g_policy = "None" THEN "risk_weighted" ELSE g_policy,
                          C10_ParentRisk(g_returned[k].scenario_id),
                          g_returned[k].negative,
                          g_returned[k].case_type)

\* C10 witness: a returned list holding an LLM case and an auto-generated
\* case, under each kind of policy.
C10_Witness ==
    /\ g_pc = "done"
    /\ g_policy = "uniform"
    /\ \E k \in 1..Len(g_returned) : g_returned[k].tags = <<"auto-generated">>
    /\ \E k \in 1..Len(g_returned) :
          g_returned[k].tags = <<>> /\ g_returned[k].case_type = "boundary"
    /\ Len(g_scenarios) > batch_size

(***************************************************************************)
(* Claims about the critic. The sets below are written from the claims,    *)
(* over the critic's three input lists.                                    *)
(***************************************************************************)
InACIds == {c_acs[k].id : k \in 1..Len(c_acs)}
InScenarioIds == {c_scenarios[k].id : k \in 1..Len(c_scenarios)}

\* ACs that appear in no scenario's related_requirements
UncoveredACs ==
    {a \in InACIds :
        \A k \in 1..Len(c_scenarios) :
            a \notin Range(c_scenarios[k].related_requirements)}

\* Scenario IDs that are the scenario_id of no test case
ScenariosWithoutCase ==
    {sid \in InScenarioIds :
        \A k \in 1..Len(c_test_cases) : c_test_cases[k].scenario_id # sid}

\* The test cases of an AC: those of every scenario that lists the AC
CasesOfAC(a) ==
    {k \in 1..Len(c_test_cases) :
        \E j \in 1..Len(c_scenarios) :
            /\ a \in Range(c_scenarios[j].related_requirements)
            /\ c_test_cases[k].scenario_id = c_scenarios[j].id}

ACsWithoutPositive ==
    {a \in InACIds : \A k \in CasesOfAC(a) : c_test_cases[k].negative}

ACsWithoutNegative ==
    {a \in InACIds : \A k \in CasesOfAC(a) : ~c_test_cases[k].negative}

\* IDs that occur twice in a list of records
TwiceIn(items) ==
    {items[k].id : k \in {k \in 1..Len(items) :
                            \E j \in 1..Len(items) : j # k /\ items[j].id = items[k].id}}

ScenariosWithDanglingAC ==
    {c_scenarios[k].id : k \in {k \in 1..Len(c_scenarios) :
        \E r \in Range(c_scenarios[k].related_requirements) : r \notin InACIds}}

CasesWithDanglingScenario ==
    {c_test_cases[k].id : k \in {k \in 1..Len(c_test_cases) :
        c_test_cases[k].scenario_id \notin InScenarioIds}}

G14Offenders ==
    TwiceIn(c_acs) \cup TwiceIn(c_scenarios) \cup TwiceIn(c_test_cases)
    \cup ScenariosWithDanglingAC \cup CasesWithDanglingScenario

\* The gates that fail on the input, and the union of what they report
FailingGates ==
    (IF UncoveredACs # {} THEN {"G1.1"} ELSE {})
    \cup (IF ScenariosWithoutCase # {} THEN {"G1.2"} ELSE {})
    \cup (IF ACsWithoutPositive \cup ACsWithoutNegative # {} THEN {"G1.3"} ELSE {})
    \cup (IF G14Offenders # {} THEN {"G1.4"} ELSE {})

AllOffenders ==
    UncoveredACs \cup ScenariosWithoutCase \cup ACsWithoutPositive
    \cup ACsWithoutNegative \cup G14Offenders

NoRepeats(s) == \A j, k \in 1..Len(s) : j # k => s[j] # s[k]

\* C3: whenever all four gates pass, process returns normally the coverage
\* map and the question list, whose IDs are Q-001, Q-002, ..., Q-n in order;
\* also when a heuristic produces a question.
C3_ProcessReturnsQuestions ==
    (c_op = "process" /\ FailingGates = {}) =>
        /\ c_result.outcome = "returned"
        /\ \A k \in 1..Len(c_result.open_questions) :
              c_result.open_questions[k].id = QId(k)

\* C4: validate_all_gates evaluates all four gates, raises iff some gate
\* fails, its rule list holds exactly the failing gates and its offending-ID
\* list is the de-duplicated union of what the failing gates report.
C4_AllGatesCombined ==
    c_op = "validate_all_gates" =>
        /\ c_result.evaluated = GateOrder
        /\ c_result.raised <=> FailingGates # {}
        /\ c_result.raised =>
              /\ Range(c_result.violated_rules) = FailingGates
              /\ Range(c_result.offending_ids) = AllOffenders
              /\ NoRepeats(c_result.offending_ids)

\* C5: validate_g1_1 raises iff some AC appears in no scenario's
\* related_requirements; then the rule list is [G1.1] and the offending-ID
\* set is exactly the set of uncovered ACs.
C5_G11Exact ==
    c_op = "validate_g1_1" =>
        /\ c_result.raised <=> UncoveredACs # {}
        /\ c_result.raised =>
              /\ c_result.violated_rules = <<"G1.1">>
              /\ Range(c_result.offending_ids) = UncoveredACs

\* C5 witness: G1.1 raised on an input with a covered and an uncovered AC.
C5_Witness ==
    /\ c_op = "validate_g1_1"
    /\ c_result.raised
    /\ UncoveredACs # InACIds

\* C6: validate_g1_2 raises iff some scenario ID is the scenario_id of no
\* test case; then the offending-ID set is exactly those scenario IDs.
C6_G12Exact ==
    c_op = "validate_g1_2" =>
        /\ c_result.raised <=> ScenariosWithoutCase # {}
        /\ c_result.raised =>
              Range(c_result.offending_ids) = ScenariosWithoutCase

\* C6 witness: G1.2 raised while another scenario has a test case and a test
\* case names an unknown scenario.
C6_Witness ==
    /\ c_op = "validate_g1_2"
    /\ c_result.raised
    /\ ScenariosWithoutCase # InScenarioIds
    /\ CasesWithDanglingScenario # {}

\* C7: validate_g1_3 raises iff some AC has no positive or no negative test
\* case among the cases of the scenarios listing it; the offending IDs are
\* exactly those ACs, each once, and the rule list is [G1.3].
C7_G13Exact ==
    c_op = "validate_g1_3" =>
        /\ c_result.raised <=> (ACsWithoutPositive \cup ACsWithoutNegative) # {}
        /\ c_result.raised =>
              /\ Range(c_result.offending_ids) = ACsWithoutPositive \cup ACsWithoutNegative
              /\ NoRepeats(c_result.offending_ids)
              /\ c_result.violated_rules = <<"G1.3">>

\* C7 witness: G1.3 raised with one AC failing both sub-conditions and
\* another AC having both kinds of test case.
C7_Witness ==
    /\ c_op = "validate_g1_3"
    /\ c_result.raised
    /\ ACsWithoutPositive \cap ACsWithoutNegative # {}
    /\ InACIds \ (ACsWithoutPositive \cup ACsWithoutNegative) # {}

\* C8: validate_g1_4 raises iff an ID occurs twice in one of the three lists
\* or a scenario lists an unknown AC or a test case names an unknown
\* scenario; the offending-ID set is exactly the duplicated IDs plus the
\* scenarios and the test cases with a dangling reference.
C8_G14Exact ==
    c_op = "validate_g1_4" =>
        /\ c_result.raised <=> G14Offenders # {}
        /\ c_result.raised => Range(c_result.offending_ids) = G14Offenders

\* C8 witness: G1.4 raised for a duplicated ID together with a dangling
\* reference of each direction.
C8_Witness ==
    /\ c_op = "validate_g1_4"
    /\ c_result.raised
    /\ TwiceIn(c_acs) \cup TwiceIn(c_scenarios) \cup TwiceIn(c_test_cases) # {}
    /\ ScenariosWithDanglingAC # {}
    /\ CasesWithDanglingScenario # {}

\* C9: after _post_process_scenarios every AC is covered by a scenario the
\* title heuristic classifies positive and by one it classifies negative;
\* every related requirement of every output scenario is a known AC ID and no
\* output scenario has none; the scenario IDs are pairwise distinct.
C9_PostProcessedScenarios ==
    s_pc = "done" =>
        LET ac_ids == {s_acs[k].id : k \in 1..Len(s_acs)}
        IN  /\ \A a \in ac_ids :
                  /\ \E k \in 1..Len(s_scenarios) :
                        /\ a \in Range(s_scenarios[k].related_requirements)
                        /\ IsLikelyPositiveScenario(s_scenarios[k])
                  /\ \E k \in 1..Len(s_scenarios) :
                        /\ a \in Range(s_scenarios[k].related_requirements)
                        /\ IsLikelyNegativeScenario(s_scenarios[k])
            /\ \A k \in 1..Len(s_scenarios) :
                  /\ s_scenarios[k].related_requirements # <<>>
                  /\ Range(s_scenarios[k].related_requirements) \subseteq ac_ids
            /\ \A j, k \in 1..Len(s_scenarios) :
                  j # k => s_scenarios[j].id # s_scenarios[k].id

\* C9 witness: the LLM returned colliding IDs, a scenario with only unknown
\* references (dropped) and one mixing a known and an unknown reference
\* (kept, cleaned), and defaults were added for an AC.
C9_Witness ==
    /\ s_pc = "done"
    /\ Len(s_acs) = 2
    /\ Len(s_raw) = 2
    /\ s_raw[1].related_requirements = <<"AC9">>
    /\ s_raw[2].related_requirements = <<"AC1", "AC9">>
    /\ \E k \in 1..Len(s_scenarios) : s_scenarios[k].title = s_raw[2].title
    /\ Len(s_scenarios) > Len(s_raw)

(***************************************************************************)
(* MockLLMRuntime and JSONValidator (runtime.py, validation.py)            *)
(*                                                                         *)
(* A raw response is a record: form says whether the text is a JSON        *)
(* object ("json"), one wrapped in a markdown fence that _clean_response   *)
(* removes ("fenced"), or text that no repair strategy turns into JSON     *)
(* ("not_json"); text holds its leading characters (fewer than the 200 the *)
(* retry guidance quotes); keys are the keys of the object, scenarios and  *)
(* test_cases the values of those keys when present.                       *)
(***************************************************************************)
MaxRetries == 3      \* largest max_retries handed to the validator

TextSorry ==
    <<"S", "o", "r", "r", "y", ",", " ", "I", " ", "c", "a", "n", "n", "o",
      "t", ".">>
TextMockDefault ==
    <<"{", "\"", "s", "c", "e", "n", "a", "r", "i", "o", "s", "\"", ":",
      " ", "[", "]", ",", " ", "\"", "t", "e", "s", "t", "_", "c", "a",
      "s", "e", "s", "\"", ":", " ", "[", "]", ",", " ", "\"", "q", "u",
      "e", "s", "t", "i", "o", "n", "s", "\"", ":", " ", "[", "]", "}">>
TextScenariosHead ==
    <<"{", "\"", "s", "c", "e", "n", "a", "r", "i", "o", "s", "\"", ":",
      " ", "[", "{", "\"", "i", "d", "\"", ":", " ", "\"", "S", "C", "N",
      "-", "0", "0", "1", "\"", ",">>
TextTestCasesHead ==
    <<"{", "\"", "t", "e", "s", "t", "_", "c", "a", "s", "e", "s", "\"",
      ":", " ", "[", "{", "\"", "i", "d", "\"", ":", " ", "\"", "T", "C",
      "-", "0", "0", "1", "\"", ",", " ", "\"", "s", "c", "e", "n", "a",
      "r", "i", "o", "_", "i", "d", "\"", ":", " ", "\"", "S", "C", "N",
      "-", "0", "0", "1", "\"", ",">>
TextSchemaInstruction ==
    <<"\n", "\n", "C", "R", "I", "T", "I", "C", "A", "L", ":", " ", "R",
      "e", "t", "u", "r", "n", " ", "O", "N", "L", "Y", " ", "v", "a", "l",
      "i", "d", " ", "J", "S", "O", "N", ".">>
TextRetryAttempt ==
    <<"\n", "\n", "R", "E", "T", "R", "Y", " ", "A", "T", "T", "E", "M",
      "P", "T", " ">>
TextScenarioPrompt ==
    <<"Y", "o", "u", " ", "a", "r", "e", " ", "a", " ", "Q", "A", " ", "t",
      "e", "s", "t", " ", "s", "c", "e", "n", "a", "r", "i", "o", " ", "g",
      "e", "n", "e", "r", "a", "t", "o", "r", ".">>
TextTestCasePrompt ==
    <<"Y", "o", "u", " ", "a", "r", "e", " ", "a", " ", "Q", "A", " ", "t",
      "e", "s", "t", " ", "c", "a", "s", "e", " ", "g", "e", "n", "e", "r",
      "a", "t", "o", "r", ".", " ", "C", "r", "e", "a", "t", "e", " ", "d",
      "e", "t", "a", "i", "l", "e", "d", ",", " ", "e", "x", "e", "c", "u",
      "t", "a", "b", "l", "e", " ", "t", "e", "s", "t", " ", "c", "a", "s",
      "e", "s", " ", "f", "o", "r", " ", "t", "h", "e", " ", "f", "o", "l",
      "l", "o", "w", "i", "n", "g", " ", "s", "c", "e", "n", "a", "r", "i",
      "o", "s", ".", " ", "\"", "t", "e", "s", "t", "_", "c", "a", "s",
      "e", "s", "\"", ":", " ", "[">>
KeywordScenario == <<"s", "c", "e", "n", "a", "r", "i", "o">>
KeywordTestCase == <<"t", "e", "s", "t", "_", "c", "a", "s", "e">>

\* The default response of MockLLMRuntime.generate
MockDefaultResponse ==
    [form |-> "json", text |-> TextMockDefault,
     keys |-> {"scenarios", "test_cases", "questions"},
     scenarios |-> <<>>, test_cases |-> <<>>]

NotJsonResponse ==
    [form |-> "not_json", text |-> TextSorry, keys |-> {},
     scenarios |-> <<>>, test_cases |-> <<>>]

\* runtime.generate raising instead of answering
LLMRuntimeError ==
    [form |-> "LLMRuntimeError", text |-> <<>>, keys |-> {},
     scenarios |-> <<>>, test_cases |-> <<>>]

\* runtime.generate(prompt) as the call_count-th call on the runtime.  A mock
\* runtime returns the response of the first registered keyword found in the
\* lower-cased prompt, else its default; a scripted runtime stands for a real
\* backend whose k-th answer is script[k] (LLMRuntimeError: the call
\* raises), repeating from the start when the script is used up.
Generate(runtime, call_count, prompt) ==
    IF runtime.kind = "mock"
    THEN LET prompt_lower == Lower(prompt)
             Matches(entry) == Contains(prompt_lower, Lower(entry.keyword))
             hits == SelectSeq(runtime.responses, Matches)
         IN  IF hits = <<>> THEN MockDefaultResponse ELSE hits[1].response
    ELSE runtime.script[((call_count - 1) % Len(runtime.script)) + 1]

\* validate_and_parse: the parsed list of model_class ("scenarios" for
\* ScenarioGenerationResponse, "test_cases" for TestCaseGenerationResponse),
\* or the JSONValidationError(response, 1, 1) it raises.
ValidateAndParse(response, model_class) ==
    IF response.form = "not_json" \/ model_class \notin response.keys
    THEN [ok |-> FALSE, raw_response |-> response, attempts |-> 1, max_retries |-> 1]
    ELSE [ok |-> TRUE, result |-> response[model_class]]

\* _enhance_prompt_with_schema
EnhancePromptWithSchema(prompt) == prompt \o TextSchemaInstruction

\* _enhance_prompt_for_retry: the guidance names the attempt and quotes
\* failed_response[:200]
EnhancePromptForRetry(prompt, failed_response, attempt) ==
    prompt \o TextRetryAttempt \o DecimalChars(attempt) \o <<":", " ">>
    \o SubSeq(failed_response.text, 1,
              IF Len(failed_response.text) < 200
              THEN Len(failed_response.text) ELSE 200)
    \o <<".", ".", ".">>

\* The for loop of validate_with_retries running one attempt too many
RECURSIVE RetryLoop_ExtraAttempt(_, _, _, _, _, _, _)
RetryLoop_ExtraAttempt(runtime, call_count, prompt, model_class, max_retries, attempt, prompts) ==
    IF attempt > max_retries + 1
    THEN [outcome |-> "JSONValidationError", attempts |-> max_retries,
          max_retries |-> max_retries, prompts |-> prompts]
    ELSE LET schema_prompt == EnhancePromptWithSchema(prompt)
             response == Generate(runtime, call_count + 1, schema_prompt)
             sent == Append(prompts, schema_prompt)
         IN  IF response.form = "LLMRuntimeError"
             THEN [outcome |-> "LLMRuntimeError", prompts |-> sent]
             ELSE LET parsed == ValidateAndParse(response, model_class)
                  IN  IF parsed.ok
                      THEN [outcome |-> "returned", result |-> parsed.result,
                            prompts |-> sent]
                      ELSE RetryLoop_ExtraAttempt(runtime, call_count + 1,
                               IF attempt < max_retries
                               THEN EnhancePromptForRetry(prompt, response, attempt)
                               ELSE prompt,
                               model_class, max_retries, attempt + 1, sent)

\* The for loop of validate_with_retries from the given attempt on; prompts
\* are the prompts handed to runtime.generate so far, call_count the calls
\* the runtime has served before.
RECURSIVE RetryLoop(_, _, _, _, _, _, _)
RetryLoop(runtime, call_count, prompt, model_class, max_retries, attempt, prompts) ==
    IF attempt > max_retries
    THEN [outcome |-> "JSONValidationError", attempts |-> max_retries,
          max_retries |-> max_retries, prompts |-> prompts]
    ELSE LET schema_prompt == EnhancePromptWithSchema(prompt)
             response == Generate(runtime, call_count + 1, schema_prompt)
             sent == Append(prompts, schema_prompt)
         IN  IF response.form = "LLMRuntimeError"
             THEN [outcome |-> "LLMRuntimeError", prompts |-> sent]
             ELSE LET parsed == ValidateAndParse(response, model_class)
                  IN  IF parsed.ok
                      THEN [outcome |-> "returned", result |-> parsed.result,
                            prompts |-> sent]
                      ELSE RetryLoop(runtime, call_count + 1,
                               IF attempt < max_retries
                               THEN EnhancePromptForRetry(prompt, response, attempt)
                               ELSE prompt,
                               model_class, max_retries, attempt + 1, sent)

\* validate_with_retries
ValidateWithRetries(runtime, call_count, prompt, model_class, max_retries) ==
    RetryLoop(runtime, call_count, prompt, model_class, max_retries, 1, <<>>)

(***************************************************************************)
(* The ZIP/Luhn worked example (tests/test_zip_luhn_example.py).  Of each  *)
(* test case only the first step is kept: no operation reads the others.   *)
(***************************************************************************)
TextNavigate ==
    <<"N", "a", "v", "i", "g", "a", "t", "e", " ", "t", "o", " ", "c", "a",
      "r", "d", " ", "r", "e", "g", "i", "s", "t", "r", "a", "t", "i", "o",
      "n", " ", "f", "o", "r", "m">>

\* acceptance_criteria of the zip_luhn_requirements fixture
ZipLuhnCriteria ==
    <<
    <<"U", "S", " ", "Z", "I", "P", " ", "c", "o", "d", "e", " ", "i", "s",
      " ", "r", "e", "q", "u", "i", "r", "e", "d", " ", "w", "h", "e", "n",
      " ", "s", "a", "v", "i", "n", "g", " ", "a", " ", "c", "a", "r", "d">>,
    <<"C", "a", "r", "d", " ", "n", "u", "m", "b", "e", "r", " ", "m", "u",
      "s", "t", " ", "p", "a", "s", "s", " ", "L", "u", "h", "n", ";", " ",
      "o", "t", "h", "e", "r", "w", "i", "s", "e", " ", "s", "h", "o", "w",
      " ", "a", " ", "v", "a", "l", "i", "d", "a", "t", "i", "o", "n", " ",
      "e", "r", "r", "o", "r">>>>

\* The "scenario" response of the zip_luhn_mock_runtime fixture
ZipLuhnScenarioResponse ==
    [form |-> "json", text |-> TextScenariosHead, keys |-> {"scenarios"},
     test_cases |-> <<>>,
     scenarios |-> <<
      [id |-> "SCN-001", type |-> "functional", risk |-> "medium",
       related_requirements |-> <<"AC1">>,
       title |->
          <<"V", "a", "l", "i", "d", " ", "U", "S", " ", "Z", "I", "P",
            " ", "c", "o", "d", "e", " ", "p", "r", "o", "v", "i", "d",
            "e", "d", " ", "w", "h", "e", "n", " ", "s", "a", "v", "i",
            "n", "g", " ", "c", "a", "r", "d">>],
      [id |-> "SCN-002", type |-> "functional", risk |-> "medium",
       related_requirements |-> <<"AC1">>,
       title |->
          <<"M", "i", "s", "s", "i", "n", "g", " ", "Z", "I", "P", " ",
            "c", "o", "d", "e", " ", "w", "h", "e", "n", " ", "s", "a",
            "v", "i", "n", "g", " ", "c", "a", "r", "d">>],
      [id |-> "SCN-003", type |-> "functional", risk |-> "medium",
       related_requirements |-> <<"AC1">>,
       title |->
          <<"I", "n", "v", "a", "l", "i", "d", " ", "Z", "I", "P", " ",
            "c", "o", "d", "e", " ", "f", "o", "r", "m", "a", "t">>],
      [id |-> "SCN-004", type |-> "functional", risk |-> "high",
       related_requirements |-> <<"AC2">>,
       title |->
          <<"V", "a", "l", "i", "d", " ", "c", "r", "e", "d", "i", "t",
            " ", "c", "a", "r", "d", " ", "n", "u", "m", "b", "e", "r",
            " ", "p", "a", "s", "s", "e", "s", " ", "L", "u", "h", "n",
            " ", "c", "h", "e", "c", "k">>],
      [id |-> "SCN-005", type |-> "functional", risk |-> "high",
       related_requirements |-> <<"AC2">>,
       title |->
          <<"I", "n", "v", "a", "l", "i", "d", " ", "c", "r", "e", "d",
            "i", "t", " ", "c", "a", "r", "d", " ", "n", "u", "m", "b",
            "e", "r", " ", "f", "a", "i", "l", "s", " ", "L", "u", "h",
            "n", " ", "c", "h", "e", "c", "k">>]>>]

\* The "test_case" response of the zip_luhn_mock_runtime fixture
ZipLuhnTestCaseResponse ==
    [form |-> "json", text |-> TextTestCasesHead, keys |-> {"test_cases"},
     scenarios |-> <<>>,
     test_cases |-> <<
      [id |-> "TC-001", scenario_id |-> "SCN-001", case_type |-> "functional",
       priority |-> "P1", steps |-> <<TextNavigate>>,
       expected |-> <<"Card is saved successfully">>, negative |-> FALSE, tags |-> <<"positive">>],
      [id |-> "TC-002", scenario_id |-> "SCN-002", case_type |-> "negative",
       priority |-> "P1", steps |-> <<TextNavigate>>,
       expected |-> <<"Card is not saved">>, negative |-> TRUE, tags |-> <<"negative">>],
      [id |-> "TC-003", scenario_id |-> "SCN-004", case_type |-> "functional",
       priority |-> "P0", steps |-> <<TextNavigate>>,
       expected |-> <<"Luhn validation passes">>, negative |-> FALSE, tags |-> <<"positive">>],
      [id |-> "TC-004", scenario_id |-> "SCN-005", case_type |-> "negative",
       priority |-> "P0", steps |-> <<TextNavigate>>,
       expected |-> <<"Luhn validation fails">>, negative |-> TRUE, tags |-> <<"negative">>]>>]

\* MockLLMRuntime(responses): the registered keywords in insertion order
MockLLMRuntime(responses) == [kind |-> "mock", responses |-> responses]

\* The zip_luhn_mock_runtime fixture
ZipLuhnMockRuntime ==
    MockLLMRuntime(<<[keyword |-> KeywordScenario, response |-> ZipLuhnScenarioResponse],
                     [keyword |-> KeywordTestCase, response |-> ZipLuhnTestCaseResponse]>>)

(***************************************************************************)
(* Specification of JSONValidator.validate_with_retries: one call on a     *)
(* fresh runtime.                                                          *)
(***************************************************************************)
\* A response with both keys: a login scenario pair with a functional and a
\* boundary test case
LoginResponse ==
    [form |-> "json", text |-> TextScenariosHead,
     keys |-> {"scenarios", "test_cases"},
     scenarios |-> <<
      [id |-> "SCN-001", type |-> "functional", risk |-> "low",
       related_requirements |-> <<"AC1">>, title |-> TitleValidLogin],
      [id |-> "SCN-002", type |-> "functional", risk |-> "low",
       related_requirements |-> <<"AC1">>, title |-> TitleInvalidZip]>>,
     test_cases |-> <<
      [id |-> "TC-001", scenario_id |-> "SCN-001", case_type |-> "functional",
       priority |-> "P2", steps |-> <<TextNavigate>>,
       expected |-> <<"Logged in">>, negative |-> FALSE, tags |-> <<>>],
      [id |-> "TC-002", scenario_id |-> "SCN-002", case_type |-> "boundary",
       priority |-> "P2", steps |-> <<TextNavigate>>,
       expected |-> <<"Rejected">>, negative |-> TRUE, tags |-> <<>>]>>]

\* What a backend may answer to one generate call
BackendAnswers ==
    {ZipLuhnScenarioResponse, LoginResponse,
     [ZipLuhnTestCaseResponse EXCEPT !.form = "fenced"],
     NotJsonResponse, LLMRuntimeError}

\* The runtimes of the model: mock runtimes with the fixture's responses
\* registered in either order, in part or not at all, and real backends
\* given by the answers to their first calls.
SampleRuntimes ==
    {MockLLMRuntime(SubSeq(ZipLuhnMockRuntime.responses, i, j)) :
        i \in 1..2, j \in 0..2}
    \cup {MockLLMRuntime(<<ZipLuhnMockRuntime.responses[2],
                           ZipLuhnMockRuntime.responses[1]>>)}
    \cup {[kind |-> "scripted", script |-> script] :
            script \in [1..MaxRetries -> BackendAnswers]}

InitRetry ==
    /\ rt \in {[pc |-> "start", runtime |-> runtime, prompt |-> prompt,
                model_class |-> model_class, max_retries |-> max_retries] :
                 runtime \in SampleRuntimes,
                 prompt \in {TextScenarioPrompt, TextTestCasePrompt},
                 model_class \in {"scenarios", "test_cases"},
                 max_retries \in 0..MaxRetries}
    /\ wf = Idle /\ fa = Idle /\ cli = Idle /\ eng = Idle /\ cfg = Idle /\ repl = Idle
    /\ NodesIdle

CallValidateWithRetries ==
    /\ rt.pc = "start"
    /\ rt' = [pc |-> "done", runtime |-> rt.runtime, prompt |-> rt.prompt,
              model_class |-> rt.model_class, max_retries |-> rt.max_retries,
              result |-> ValidateWithRetries(rt.runtime, 0, rt.prompt,
                                             rt.model_class, rt.max_retries)]
    /\ UNCHANGED <<nodeVars, wf, fa, cli, eng, cfg, repl>>

NextRetry == CallValidateWithRetries

SpecRetry == InitRetry /\ [][NextRetry]_vars

\* The answer the runtime of rt gives to its k-th call with the prompt sent
RetryAnswer(k) == Generate(rt.runtime, k, rt.result.prompts[k])

RetryAnswerValid(k) ==
    /\ RetryAnswer(k).form \in {"json", "fenced"}
    /\ rt.model_class \in RetryAnswer(k).keys

\* The prompt the k-th attempt is expected to send: the base prompt, one
\* guidance block for each earlier attempt, then the schema instruction
RECURSIVE RetryBasePrompt(_)
RetryBasePrompt(k) ==
    IF k = 1 THEN rt.prompt
    ELSE EnhancePromptForRetry(RetryBasePrompt(k - 1), RetryAnswer(k - 1), k - 1)

\* C12: validate_with_retries calls runtime.generate at most max_retries
\* times, stops at the first attempt whose response validates and returns
\* its parsed record, sends after each failed attempt a prompt with one more
\* guidance block, and when all max_retries attempts fail ends with a
\* JSONValidationError whose attempts and max_retries equal the bound.
C12_BoundedRetries ==
    rt.pc = "done" =>
        LET calls == Len(rt.result.prompts)
        IN  /\ calls <= rt.max_retries
            /\ \A k \in 1..calls :
                  /\ rt.result.prompts[k] = EnhancePromptWithSchema(RetryBasePrompt(k))
                  /\ k < calls =>
                        /\ RetryAnswer(k).form # "LLMRuntimeError"
                        /\ ~RetryAnswerValid(k)
            /\ rt.result.outcome = "returned" =>
                  /\ calls >= 1
                  /\ RetryAnswerValid(calls)
                  /\ rt.result.result = RetryAnswer(calls)[rt.model_class]
            /\ rt.result.outcome = "JSONValidationError" =>
                  /\ calls = rt.max_retries
                  /\ \A k \in 1..calls : ~RetryAnswerValid(k)
                  /\ rt.result.attempts = rt.max_retries
                  /\ rt.result.max_retries = rt.max_retries
            /\ (calls >= 1 /\ RetryAnswerValid(calls)) =>
                  rt.result.outcome = "returned"

\* C12 witness: two failed attempts, each followed by a longer prompt, then
\* a third attempt that validates.
C12_Witness ==
    /\ rt.pc = "done"
    /\ rt.max_retries = 3
    /\ rt.result.outcome = "returned"
    /\ Len(rt.result.prompts) = 3
    /\ Len(rt.result.prompts[3]) > Len(rt.result.prompts[2])

\* C12 witness of the failing end: every attempt used and failed.
C12_WitnessExhausted ==
    /\ rt.pc = "done"
    /\ rt.max_retries = 2
    /\ rt.result.outcome = "JSONValidationError"

(***************************************************************************)
(* QAWorkflow (workflow.py) over the nodes above.                          *)
(***************************************************************************)
default_max_retries == 3

\* ScenarioSynthesizer.process as the calls after call_count on the runtime:
\* prompt with the AC texts, generate_with_validation, post-processing.
SynthesizerProcess(runtime, call_count, acceptance_criteria) ==
    LET prompt == TextScenarioPrompt
                  \o Flatten([k \in 1..Len(acceptance_criteria) |->
                                 acceptance_criteria[k].text])
        response == ValidateWithRetries(runtime, call_count, prompt,
                                        "scenarios", default_max_retries)
    IN  IF response.outcome = "returned"
        THEN [outcome |-> "returned", calls |-> Len(response.prompts),
              received |-> response.result,
              scenarios |-> PostProcessScenarios(response.result, acceptance_criteria)]
        ELSE [outcome |-> response.outcome, calls |-> Len(response.prompts),
              received |-> <<>>, scenarios |-> <<>>]

\* CaseGenerator.process from the batch starting at the 0-based i on, with
\* the accumulator all_cases and the responses received so far.
RECURSIVE GeneratorProcessFrom(_, _, _, _, _, _, _)
GeneratorProcessFrom(runtime, call_count, scenarios, priority_policy, i, all_cases, received) ==
    IF i >= Len(scenarios)
    THEN [outcome |-> "returned", test_cases |-> all_cases, received |-> received]
    ELSE LET batch == Batch(scenarios, i)
             prompt == TextTestCasePrompt
                       \o Flatten([k \in 1..Len(batch) |-> batch[k].title])
             response == ValidateWithRetries(runtime, call_count, prompt,
                                             "test_cases", default_max_retries)
         IN  IF response.outcome = "returned"
             THEN GeneratorProcessFrom(runtime, call_count + Len(response.prompts),
                      scenarios, priority_policy, i + batch_size,
                      all_cases \o PostProcessTestCases(response.result, batch,
                                                        priority_policy),
                      Append(received, response.result))
             ELSE [outcome |-> response.outcome, test_cases |-> <<>>,
                   received |-> received]

\* A run record before its first node
NewRun(criteria, priority_policy, runtime) ==
    [pc |-> "run", criteria |-> criteria, priority_policy |-> priority_policy,
     runtime |-> runtime, call_count |-> 0, nodes |-> <<>>,
     acs |-> <<>>, scenarios |-> <<>>, test_cases |-> <<>>,
     scenario_response |-> <<>>, test_case_responses |-> <<>>,
     critic |-> [outcome |-> "none"], error |-> [type |-> "none"],
     test_plan |-> FALSE]

\* raise: run logs the exception and re-raises it as it is
Raised(run, error) == [run EXCEPT !.pc = "raised", !.error = error]

(***************************************************************************)
(* Specification of QAWorkflow.run: one run, node by node.                 *)
(***************************************************************************)
\* acceptance_criteria of the requirements handed to run (RequirementsInput
\* rejects the empty list)
FlowCriteria ==
    {ZipLuhnCriteria, <<TextUserCanLogIn>>, <<<<" ">>, TextZipRequired>>, <<<<" ">>>>}

InitFlow ==
    /\ wf \in {NewRun(criteria, priority_policy, runtime) :
                 criteria \in FlowCriteria,
                 priority_policy \in {"risk_weighted", "uniform"},
                 runtime \in SampleRuntimes \cup {[kind |-> "none"]}}
    /\ rt = Idle /\ fa = Idle /\ cli = Idle /\ eng = Idle /\ cfg = Idle /\ repl = Idle
    /\ NodesIdle

\* run: if not self.runtime, _initialize_runtime auto-detects a backend or
\* raises LLMRuntimeError.
WfBegin ==
    /\ wf.pc = "run"
    /\ IF wf.runtime.kind # "none"
       THEN wf' = [wf EXCEPT !.pc = "parse"]
       ELSE \/ \E runtime \in {r \in SampleRuntimes : r.kind = "scripted"} :
                  wf' = [wf EXCEPT !.pc = "parse", !.runtime = runtime]
            \/ wf' = Raised(wf, [type |-> "LLMRuntimeError"])
    /\ UNCHANGED <<nodeVars, rt, fa, cli, eng, cfg, repl>>

\* Node 1: ParseRequirements.process
WfParse ==
    /\ wf.pc = "parse"
    /\ wf' = [wf EXCEPT !.pc = "synthesize",
                        !.nodes = Append(@, "parse"),
                        !.acs = NormalizeAcceptanceCriteria(wf.criteria)]
    /\ UNCHANGED <<nodeVars, rt, fa, cli, eng, cfg, repl>>

\* Node 2: ScenarioSynthesizer.process
WfSynthesize ==
    /\ wf.pc = "synthesize"
    /\ LET r == SynthesizerProcess(wf.runtime, wf.call_count, wf.acs)
           ran == [wf EXCEPT !.nodes = Append(@, "synthesize"),
                             !.call_count = @ + r.calls]
       IN  wf' = IF r.outcome = "returned"
                 THEN [ran EXCEPT !.pc = "generate",
                                  !.scenario_response = r.received,
                                  !.scenarios = r.scenarios]
                 ELSE Raised(ran, [type |-> r.outcome])
    /\ UNCHANGED <<nodeVars, rt, fa, cli, eng, cfg, repl>>

\* Node 3: CaseGenerator.process
WfGenerate ==
    /\ wf.pc = "generate"
    /\ LET r == GeneratorProcessFrom(wf.runtime, wf.call_count, wf.scenarios,
                                     wf.priority_policy, 0, <<>>, <<>>)
           ran == [wf EXCEPT !.nodes = Append(@, "generate"),
                             !.test_case_responses = r.received]
       IN  wf' = IF r.outcome = "returned"
                 THEN [ran EXCEPT !.pc = "critic", !.test_cases = r.test_cases]
                 ELSE Raised(ran, [type |-> r.outcome])
    /\ UNCHANGED <<nodeVars, rt, fa, cli, eng, cfg, repl>>

\* Node 4 raising no error whatever the gates say
WfCritic_IgnoresGates ==
    /\ wf.pc = "critic"
    /\ wf' = [wf EXCEPT !.pc = "emit", !.nodes = Append(@, "critic"),
                        !.critic = CriticProcess(wf.acs, wf.scenarios, wf.test_cases)]
    /\ UNCHANGED <<nodeVars, rt, fa, cli, eng, cfg, repl>>

\* Node 4: CoverageCritic.process
WfCritic ==
    /\ wf.pc = "critic"
    /\ LET r == CriticProcess(wf.acs, wf.scenarios, wf.test_cases)
           ran == [wf EXCEPT !.nodes = Append(@, "critic"), !.critic = r]
       IN  wf' = IF r.outcome = "returned"
                 THEN [ran EXCEPT !.pc = "emit"]
                 ELSE Raised(ran, [type |-> r.outcome,
                                   violated_rules |-> r.violated_rules,
                                   offending_ids |-> r.offending_ids])
    /\ UNCHANGED <<nodeVars, rt, fa, cli, eng, cfg, repl>>

\* Node 5: ArtifactEmitter.process writes the plan, or fails writing it
WfEmit ==
    /\ wf.pc = "emit"
    /\ \E written \in BOOLEAN :
          wf' = IF written
                THEN [wf EXCEPT !.pc = "returned", !.nodes = Append(@, "emit"),
                                !.test_plan = TRUE]
                ELSE Raised([wf EXCEPT !.nodes = Append(@, "emit")],
                            [type |-> "OSError"])
    /\ UNCHANGED <<nodeVars, rt, fa, cli, eng, cfg, repl>>

NextFlow == WfBegin \/ WfParse \/ WfSynthesize \/ WfGenerate \/ WfCritic \/ WfEmit

SpecFlow == InitFlow /\ [][NextFlow]_vars

NodeOrder == <<"parse", "synthesize", "generate", "critic", "emit">>

\* C11: the nodes run in the order parse, synthesize, generate, critic, emit,
\* each at most once; the emitter runs only after the critic returned; when
\* the critic raises a quality-gate violation, run raises that error as it
\* is and no test plan is produced.
C11_NodeOrderAndGateAbort ==
    /\ Len(wf.nodes) <= Len(NodeOrder)
    /\ wf.nodes = SubSeq(NodeOrder, 1, Len(wf.nodes))
    /\ (Len(wf.nodes) = 5 \/ wf.pc = "emit") => wf.critic.outcome = "returned"
    /\ wf.critic.outcome = "G1ValidationError" =>
          /\ wf.pc = "raised"
          /\ wf.error.type = "G1ValidationError"
          /\ wf.error.violated_rules = wf.critic.violated_rules
          /\ wf.error.offending_ids = wf.critic.offending_ids
          /\ ~wf.test_plan
    /\ wf.test_plan => wf.critic.outcome = "returned"

\* C11 witness: a run the critic ended with a quality-gate violation after
\* the three nodes before it.
C11_Witness ==
    /\ wf.pc = "raised"
    /\ wf.nodes = <<"parse", "synthesize", "generate", "critic">>
    /\ wf.critic.outcome = "G1ValidationError"
    /\ wf.scenarios # <<>>

\* A run that went through all five nodes and produced the plan
C11_WitnessEmitted ==
    /\ wf.pc = "returned"
    /\ wf.test_plan
    /\ wf.test_cases # <<>>

\* C20: the worked example (the ZIP/Luhn requirements run with the fixture's
\* mock runtime) completes without error, the scenario step receives the
\* "scenario" response and the case step the "test_case" response, and the
\* result has exactly five scenarios and four test cases passing every gate.
C20_ZipLuhnExample ==
    (/\ wf.criteria = ZipLuhnCriteria
     /\ wf.runtime = ZipLuhnMockRuntime
     /\ wf.pc \in {"returned", "raised"})
    => /\ wf.pc = "returned"
       /\ wf.scenario_response = ZipLuhnScenarioResponse.scenarios
       /\ wf.test_case_responses = <<ZipLuhnTestCaseResponse.test_cases>>
       /\ Len(wf.scenarios) = 5
       /\ Len(wf.test_cases) = 4
       /\ wf.critic.outcome = "returned"

(***************************************************************************)
(* RuntimeFactory (runtime.py)                                             *)
(***************************************************************************)
\* _setup_default_runtimes: the names of the dict in insertion order
DefaultRuntimes == <<"local", "openai", "anthropic">>

\* Names a caller registers or prefers
RuntimeNames == {"local", "openai", "anthropic", "custom"}

\* register_runtime: a dict assignment; a known name keeps its position
RegisterRuntime(runtimes, name) ==
    IF name \in Range(runtimes) THEN runtimes ELSE Append(runtimes, name)

\* _create_runtime_instance(name) gives an instance (not None) whose
\* is_available() holds; usable is what the environment allows.
CreateRuntimeInstance(runtimes, usable, name) ==
    name \in Range(runtimes) /\ name \in usable

\* The auto-detect loop of create_runtime, from position k on
RECURSIVE AutoDetectFrom(_, _, _, _)
AutoDetectFrom(runtimes, usable, api_key, k) ==
    IF k > Len(runtimes)
    THEN [outcome |-> "LLMRuntimeError", name |-> "None"]
    ELSE IF (api_key \/ runtimes[k] = "local")
            /\ CreateRuntimeInstance(runtimes, usable, runtimes[k])
         THEN [outcome |-> "returned", name |-> runtimes[k]]
         ELSE AutoDetectFrom(runtimes, usable, api_key, k + 1)

CreateRuntime(runtimes, usable, preferred, api_key, auto_fallback) ==
    IF preferred # "None" /\ preferred \in Range(runtimes)
       /\ CreateRuntimeInstance(runtimes, usable, preferred)
    THEN [outcome |-> "returned", name |-> preferred]
    ELSE IF preferred # "None" /\ preferred \in Range(runtimes) /\ ~auto_fallback
    THEN [outcome |-> "LLMRuntimeError", name |-> "None"]
    ELSE IF auto_fallback
    THEN AutoDetectFrom(runtimes, usable, api_key, 1)
    ELSE [outcome |-> "LLMRuntimeError", name |-> "None"]

\* The keyword parameters of the two runtime classes' __init__, and those
\* without a default
AcceptedKwargs ==
    [SimpleMLXRuntime |-> {"model_path"},
     OpenAICompatibleRuntime |-> {"base_url", "api_key", "model", "name"}]
RequiredKwargs ==
    [SimpleMLXRuntime |-> {}, OpenAICompatibleRuntime |-> {"base_url"}]

\* config["class"](**config["kwargs"]) binds its arguments (no TypeError)
Constructs(config) ==
    /\ config.kwargs \subseteq AcceptedKwargs[config.class]
    /\ RequiredKwargs[config.class] \subseteq config.kwargs

\* _setup_default_runtimes: the configuration registered as "local"
SetupLocal(has_mlx) ==
    IF has_mlx THEN [class |-> "SimpleMLXRuntime", kwargs |-> {"model_path"}]
    ELSE [class |-> "OpenAICompatibleRuntime",
          kwargs |-> {"base_url", "api_key", "model", "name"}]

\* if local_url: self._runtimes["local"]["kwargs"]["base_url"] = local_url
PatchLocalUrl(local, local_url) ==
    IF local_url # "None" THEN [local EXCEPT !.kwargs = @ \cup {"base_url"}] ELSE local

\* The names whose class can be constructed from its kwargs and whose
\* instance is available: what the environment allows, less "local" when its
\* constructor rejects the kwargs
ConstructibleNames(usable, local) ==
    IF Constructs(local) THEN usable ELSE usable \ {"local"}

\* A factory after __init__, in an environment where the backends of
\* usable can be constructed and answer; has_mlx is HAS_MLX.
InitFactory ==
    /\ fa \in {[pc |-> "ready", runtimes |-> DefaultRuntimes, usable |-> usable,
                has_mlx |-> has_mlx, local |-> SetupLocal(has_mlx),
                local_url |-> "default", hosted_key |-> FALSE,
                preferred |-> "None", api_key |-> FALSE, auto_fallback |-> TRUE,
                result |-> [outcome |-> "none", name |-> "None"]] :
               usable \in SUBSET RuntimeNames, has_mlx \in BOOLEAN}
    /\ wf = Idle /\ rt = Idle /\ cli = Idle /\ eng = Idle /\ cfg = Idle /\ repl = Idle
    /\ NodesIdle

FaRegisterRuntime ==
    /\ fa.pc \in {"ready", "created"}
    /\ \E name \in RuntimeNames :
          fa' = [fa EXCEPT
                   !.pc = "ready",
                   !.result = [outcome |-> "none", name |-> "None"],
                   !.runtimes = RegisterRuntime(@, name),
                   \* a caller's own "local": an OpenAI-compatible server
                   !.local = IF name = "local"
                             THEN [class |-> "OpenAICompatibleRuntime",
                                   kwargs |-> {"base_url"}]
                             ELSE @]
    /\ UNCHANGED <<nodeVars, wf, rt, cli, eng, cfg, repl>>

FaCreateRuntime ==
    /\ fa.pc \in {"ready", "created"}
    /\ \E preferred \in RuntimeNames \cup {"None", "unknown"},
          local_url \in {"None", "custom"}, api_key, auto_fallback \in BOOLEAN :
          fa' = [fa EXCEPT
                   !.pc = "created",
                   !.local = PatchLocalUrl(@, local_url),
                   !.local_url = IF local_url # "None" THEN local_url ELSE @,
                   !.hosted_key = @ \/ api_key,
                   !.preferred = preferred, !.api_key = api_key,
                   !.auto_fallback = auto_fallback,
                   !.result = CreateRuntime(
                                 fa.runtimes,
                                 ConstructibleNames(fa.usable,
                                                    PatchLocalUrl(fa.local, local_url)),
                                 preferred, api_key, auto_fallback)]
    /\ UNCHANGED <<nodeVars, wf, rt, cli, eng, cfg, repl>>

NextFactory == FaRegisterRuntime \/ FaCreateRuntime

SpecFactory == InitFactory /\ [][NextFactory]_vars

\* The configurations the fallback of the last call considers, in order,
\* when only hosted ones are skipped for want of an API key
FaConsidered ==
    SelectSeq(fa.runtimes,
              LAMBDA name : (fa.api_key \/ name \notin {"openai", "anthropic"})
                            /\ name \in ConstructibleNames(fa.usable, fa.local))

\* C13: create_runtime returns the preferred backend when it is registered,
\* constructible and available; raises when it is unavailable and
\* auto_fallback is off; otherwise returns the first registered backend, in
\* registration order, that is constructible and available, skipping only
\* openai and anthropic when no API key was given (local and custom backends
\* are always considered), and raises when there is none.
C13_CreateRuntime ==
    fa.pc = "created" =>
       LET preferred_known == fa.preferred \in Range(fa.runtimes) IN
       IF preferred_known /\ fa.preferred \in ConstructibleNames(fa.usable, fa.local)
       THEN fa.result = [outcome |-> "returned", name |-> fa.preferred]
       ELSE IF preferred_known /\ ~fa.auto_fallback
       THEN fa.result.outcome = "LLMRuntimeError"
       ELSE fa.auto_fallback =>
              IF FaConsidered = <<>>
              THEN fa.result.outcome = "LLMRuntimeError"
              ELSE fa.result = [outcome |-> "returned", name |-> Head(FaConsidered)]

\* C29: once a local_url was supplied to create_runtime, the kwargs
\* registered for "local" are still accepted by its class, for the
\* SimpleMLXRuntime registration as for the OpenAICompatibleRuntime one.
C29_LocalUrlKeepsLocalConstructible ==
    fa.local_url # "default" => Constructs(fa.local)

(***************************************************************************)
(* QA CLI main (qa_generator/cli.py)                                       *)
(***************************************************************************)
\* The base class of each exception type that can reach main's handlers
\* (exceptions.py; json.JSONDecodeError and pydantic's ValidationError are
\* ValueErrors)
ExceptionBase ==
    [G1ValidationError |-> "QAGeneratorError", JSONValidationError |-> "QAGeneratorError",
     LLMRuntimeError |-> "QAGeneratorError", QAGeneratorError |-> "Exception",
     JSONDecodeError |-> "ValueError", ValidationError |-> "ValueError",
     ValueError |-> "Exception", FileNotFoundError |-> "OSError",
     OSError |-> "Exception", KeyError |-> "Exception",
     KeyboardInterrupt |-> "BaseException", Exception |-> "BaseException"]

RECURSIVE IsInstance(_, _)
IsInstance(type, class) ==
    \/ type = class
    \/ type \in DOMAIN ExceptionBase /\ IsInstance(ExceptionBase[type], class)

\* The except clauses of main, in order
ExitCode(error) ==
    IF error = "none" THEN 0
    ELSE IF IsInstance(error, "G1ValidationError") THEN 1
    ELSE IF \E class \in {"QAGeneratorError", "ValueError", "FileNotFoundError"} :
               IsInstance(error, class) THEN 2
    ELSE IF IsInstance(error, "KeyboardInterrupt") THEN 130
    ELSE 3

\* validate_inputs: the first check that fails, or "none"
ValidateInputs(args) ==
    IF args.spec_file = "None" /\ ~args.spec_text THEN "ValueError"
    ELSE IF args.spec_file # "None" /\ args.spec_text THEN "ValueError"
    ELSE IF args.ac_file = "None" /\ args.ac_json = "None" THEN "ValueError"
    ELSE IF args.ac_file # "None" /\ args.ac_json # "None" THEN "ValueError"
    ELSE IF "missing" \in {args.spec_file, args.ac_file, args.api_schema}
    THEN "FileNotFoundError"
    ELSE "none"

\* load_requirements_input: ac_data is what the AC file or --ac-json holds
LoadRequirementsInput(args) ==
    LET ac_data == IF args.ac_file # "None" THEN args.ac_file ELSE args.ac_json IN
    CASE ac_data = "malformed" -> "JSONDecodeError"
      [] ac_data \in {"list", "object"} -> "none"
      [] ac_data = "empty_list" -> "ValidationError"
      [] OTHER -> "ValueError"

\* What a file argument can be (absent, a path that does not exist, or the
\* shape of what the file holds) and what --ac-json can hold
AcShapes == {"list", "object", "empty_list", "other_object", "malformed"}

CliArgs ==
    [spec_file : {"None", "missing", "text"}, spec_text : BOOLEAN,
     ac_file : {"None", "missing"} \cup AcShapes, ac_json : {"None"} \cup AcShapes,
     api_schema : {"None", "missing", "schema"}, api_key : BOOLEAN]

\* What QAWorkflow.run and the summary after it can end with
WorkflowOutcomes ==
    {"none", "G1ValidationError", "JSONValidationError", "LLMRuntimeError",
     "ValidationError", "OSError", "KeyError"}

NewMain(args, usable) ==
    [pc |-> "validate_inputs", args |-> args, usable |-> usable,
     runtime |-> "None", workflow |-> FALSE, error |-> "none",
     failed_at |-> "none", exit_code |-> -1]

Exit(main, stage, error) ==
    [main EXCEPT !.pc = "exited", !.error = error,
                 !.failed_at = IF error = "none" THEN "none" ELSE stage,
                 !.exit_code = ExitCode(error)]

InitCli ==
    /\ cli \in {NewMain(args, usable) : args \in CliArgs,
                                        usable \in SUBSET {"local", "openai"}}
    /\ wf = Idle /\ rt = Idle /\ fa = Idle /\ eng = Idle /\ cfg = Idle /\ repl = Idle
    /\ NodesIdle

CliValidateInputs ==
    /\ cli.pc = "validate_inputs"
    /\ LET error == ValidateInputs(cli.args)
       IN  cli' = IF error = "none" THEN [cli EXCEPT !.pc = "load_requirements_input"]
                  ELSE Exit(cli, "validate_inputs", error)
    /\ UNCHANGED <<nodeVars, wf, rt, fa, eng, cfg, repl>>

CliLoadRequirements ==
    /\ cli.pc = "load_requirements_input"
    /\ LET error == LoadRequirementsInput(cli.args)
       IN  cli' = IF error = "none" THEN [cli EXCEPT !.pc = "create_runtime"]
                  ELSE Exit(cli, "load_requirements_input", error)
    /\ UNCHANGED <<nodeVars, wf, rt, fa, eng, cfg, repl>>

\* create_runtime: auto_detect_runtime on a fresh factory
CliCreateRuntime ==
    /\ cli.pc = "create_runtime"
    /\ LET r == CreateRuntime(DefaultRuntimes, cli.usable, "None", cli.args.api_key, TRUE)
       IN  cli' = IF r.outcome = "returned"
                  THEN [cli EXCEPT !.pc = "workflow", !.runtime = r.name]
                  ELSE Exit(cli, "create_runtime", r.outcome)
    /\ UNCHANGED <<nodeVars, wf, rt, fa, eng, cfg, repl>>

\* QAWorkflow(runtime, output_dir).run(requirements), print_success_summary
CliRunWorkflow ==
    /\ cli.pc = "workflow"
    /\ \E outcome \in WorkflowOutcomes :
          cli' = Exit([cli EXCEPT !.workflow = TRUE], "workflow", outcome)
    /\ UNCHANGED <<nodeVars, wf, rt, fa, eng, cfg, repl>>

\* Ctrl-C while main is inside its try block
CliInterrupt ==
    /\ cli.pc \in {"validate_inputs", "load_requirements_input", "create_runtime", "workflow"}
    /\ cli' = Exit(cli, cli.pc, "KeyboardInterrupt")
    /\ UNCHANGED <<nodeVars, wf, rt, fa, eng, cfg, repl>>

NextCli ==
    CliValidateInputs \/ CliLoadRequirements \/ CliCreateRuntime \/ CliRunWorkflow
    \/ CliInterrupt

SpecCli == InitCli /\ [][NextCli]_vars

\* C14: main returns 0 when the workflow completes, 1 on a quality-gate
\* violation, 2 on an input error (found before any runtime or workflow
\* exists), 130 on user interrupt and 3 on any other failure, an LLM backend
\* failure included.
C14_ExitCodes ==
    cli.pc = "exited" =>
       CASE cli.error = "none" -> cli.exit_code = 0
         [] cli.error = "KeyboardInterrupt" -> cli.exit_code = 130
         [] cli.error = "G1ValidationError" -> cli.exit_code = 1
         [] cli.failed_at \in {"validate_inputs", "load_requirements_input"}
            /\ cli.error # "KeyboardInterrupt" ->
               cli.exit_code = 2 /\ cli.runtime = "None" /\ ~cli.workflow
         [] OTHER -> cli.exit_code = 3

(***************************************************************************)
(* mlxchat Engine (mlxchat/engine.py)                                      *)
(***************************************************************************)
MaxFragments == 2     \* fragments one generation attempt yields
MaxTurns == 2         \* turns in the history when a further stream_reply may start

TextPleaseEnter ==
    <<"P", "l", "e", "a", "s", "e", " ", "e", "n", "t", "e", "r", " ", "s",
      "o", "m", "e", "t", "h", "i", "n", "g", " ", "n", "o", "n", "-", "e",
      "m", "p", "t", "y", ".">>
TextHi == <<"h", "i">>
\* Two model identifiers
ModelM1 == <<"m", "1">>
ModelM2 == <<"m", "2">>
TextSys == <<"s", "y", "s">>
TextTerse == <<"t", "e", "r", "s", "e">>
MsgKvBits ==
    <<"u", "n", "e", "x", "p", "e", "c", "t", "e", "d", " ", "k", "e", "y",
      "w", "o", "r", "d", " ", "a", "r", "g", "u", "m", "e", "n", "t", " ",
      "'", "k", "v", "_", "b", "i", "t", "s", "'">>
MsgMaxKvSize ==
    <<"u", "n", "e", "x", "p", "e", "c", "t", "e", "d", " ", "k", "e", "y",
      "w", "o", "r", "d", " ", "a", "r", "g", "u", "m", "e", "n", "t", " ",
      "'", "m", "a", "x", "_", "k", "v", "_", "s", "i", "z", "e", "'">>
MsgOperand ==
    <<"u", "n", "s", "u", "p", "p", "o", "r", "t", "e", "d", " ", "o", "p",
      "e", "r", "a", "n", "d", " ", "t", "y", "p", "e">>

\* How a generation attempt ends after its fragments: normally, or with an
\* exception of the backend
NoFailure == [type |-> "None", msg |-> <<>>]
Failures ==
    {[type |-> "TypeError", msg |-> MsgKvBits], [type |-> "TypeError", msg |-> MsgMaxKvSize],
     [type |-> "TypeError", msg |-> MsgOperand], [type |-> "RuntimeError", msg |-> MsgKvBits]}

\* The except clause of _try_stream_tokens: is the failure answered by a
\* second attempt
IsCapabilityError(fail) ==
    /\ fail.type = "TypeError"
    /\ \E k \in {<<"k", "v", "_", "b", "i", "t", "s">>,
                 <<"k", "v", "_", "g", "r", "o", "u", "p", "_", "s", "i", "z", "e">>,
                 <<"q", "u", "a", "n", "t", "i", "z", "e", "d", "_", "k", "v", "_", "s", "t", "a", "r", "t">>,
                 <<"m", "a", "x", "_", "k", "v", "_", "s", "i", "z", "e">>} :
          Contains(fail.msg, k)

\* The fragments stream_generate yields (resp.text), then how it ends
FragmentSeqs(frag) == {[k \in 1..n |-> frag] : n \in 0..MaxFragments}
\* A second attempt is planned only where the first one's failure asks for it
BackendPlans ==
    {[first |-> [frags |-> f1, fail |-> x1], second |-> [frags |-> f2, fail |-> x2]] :
        f1 \in FragmentSeqs(<<"a">>), x1 \in {[type |-> "TypeError", msg |-> MsgKvBits]},
        f2 \in FragmentSeqs(<<"b">>), x2 \in {NoFailure, [type |-> "TypeError", msg |-> MsgKvBits]}}
    \cup
    {[first |-> [frags |-> <<>>, fail |-> [type |-> "TypeError", msg |-> MsgMaxKvSize]],
      second |-> [frags |-> <<<<"b">>>>, fail |-> NoFailure]]}
    \cup
    {[first |-> [frags |-> f1, fail |-> x1], second |-> [frags |-> <<>>, fail |-> NoFailure]] :
        f1 \in FragmentSeqs(<<"a">>),
        x1 \in {x \in Failures \cup {NoFailure} : ~IsCapabilityError(x)}}

\* A prompt cache: the model it was made for, its bound, and whether a
\* generation has filled it (mlx_lm updates a prompt_cache it is handed in
\* place with the keys and values of the tokens it processes)
NoCache == [model |-> <<>>, max_kv_size |-> 0, holds |-> FALSE]

\* _make_cache; factory says whether make_prompt_cache was importable and
\* whether it accepts max_kv_size
MakeCache(params, factory) ==
    IF factory = "None" THEN NoCache
    ELSE IF params.max_kv_size > 0 /\ factory = "sized"
    THEN [model |-> params.model_id, max_kv_size |-> params.max_kv_size, holds |-> FALSE]
    ELSE [model |-> params.model_id, max_kv_size |-> 0, holds |-> FALSE]

SystemTurn(text) == [role |-> "system", content |-> text]

\* What reset leaves in the history (also the end of __init__)
ResetMessages(params) ==
    IF params.system # <<>> THEN <<SystemTurn(params.system)>> ELSE <<>>

\* set_system keeping the old system turn when the text is empty
SetSystemMessages_KeepOnClear(messages, text) ==
    IF messages # <<>> /\ messages[1].role = "system"
    THEN IF text # <<>> THEN [messages EXCEPT ![1].content = text] ELSE messages
    ELSE IF text # <<>> THEN <<SystemTurn(text)>> \o messages
    ELSE messages

SetSystemMessages(messages, text) ==
    IF messages # <<>> /\ messages[1].role = "system"
    THEN IF text # <<>> THEN [messages EXCEPT ![1].content = text] ELSE Tail(messages)
    ELSE IF text # <<>> THEN <<SystemTurn(text)>> \o messages
    ELSE messages

\* _gen_kwargs: the names of the keyword arguments
GenKwargs(params, prompt_cache) ==
    {"model", "tokenizer", "prompt", "max_tokens", "sampler"}
    \cup (IF prompt_cache # NoCache THEN {"prompt_cache"} ELSE {})
    \cup (IF params.max_kv_size > 0 THEN {"max_kv_size"} ELSE {})
    \cup (IF params.kv_bits # 0 THEN {"kv_bits", "kv_group_size", "quantized_kv_start"} ELSE {})

bad == {"kv_bits", "kv_group_size", "quantized_kv_start", "max_kv_size"}

StripUnknownKvArgs(kw) == kw \ bad

\* not user_text.strip(), taking only the empty string for blank
IsBlank_EmptyOnly(user_text) == user_text = <<>>

\* not user_text.strip()
IsBlank(user_text) == Strip(user_text) = <<>>

\* An engine with no stream_reply generator to speak of
NoStream ==
    [user_text |-> <<>>, plan |-> CHOOSE p \in BackendPlans : TRUE, attempt |-> 0,
     pos |-> 0, chunks |-> <<>>, yielded |-> <<>>, calls |-> <<>>, events |-> <<>>,
     base |-> 0, outcome |-> "none"]

NewEngine(params, factory) ==
    [pc |-> "ready", params |-> params, factory |-> factory, model |-> params.model_id,
     prompt_cache |-> MakeCache(params, factory), messages |-> ResetMessages(params),
     stream |-> NoStream]

\* The turn stream_reply appends for only the last fragment
AssistantTurn_LastFragment(chunks) ==
    [role |-> "assistant",
     content |-> IF chunks = <<>> THEN <<>> ELSE chunks[Len(chunks)]]

\* full = "".join(chunks) as the assistant turn
AssistantTurn(chunks) == [role |-> "assistant", content |-> Flatten(chunks)]

\* The generator body of stream_reply and _try_stream_tokens, from the point
\* where it is suspended (or from the first attempt's start) up to its next
\* yield, its return or the exception it lets out.
RECURSIVE Resume(_)
Resume(e) ==
    LET s == e.stream
        att == IF s.attempt = 1 THEN s.plan.first ELSE s.plan.second
    IN  IF s.pos < Len(att.frags)
        THEN [e EXCEPT !.pc = "suspended",
                       !.prompt_cache.holds = @ \/ "prompt_cache" \in s.calls[s.attempt],
                       !.stream.pos = @ + 1,
                       !.stream.chunks = Append(@, att.frags[s.pos + 1]),
                       !.stream.yielded = Append(@, att.frags[s.pos + 1]),
                       !.stream.events = Append(@, "yield")]
        ELSE IF att.fail = NoFailure
        THEN [e EXCEPT !.pc = "ready",
                       !.messages = Append(@, AssistantTurn(s.chunks)),
                       !.stream.outcome = "exhausted",
                       !.stream.events =
                           @ \o <<"append_assistant">>
                             \o (IF e.params.clear_cache_after THEN <<"clear_cache">>
                                 ELSE <<>>)]
        ELSE IF s.attempt = 1 /\ IsCapabilityError(att.fail)
        THEN Resume([e EXCEPT !.stream.attempt = 2, !.stream.pos = 0,
                              !.stream.calls = Append(@, StripUnknownKvArgs(s.calls[1])),
                              !.stream.events = Append(@, "generate")])
        ELSE [e EXCEPT !.pc = "ready", !.stream.outcome = att.fail.type,
                       !.stream.events = Append(@, "raise")]

\* The first next() on stream_reply(user_text)
StreamReply(e, user_text, plan) ==
    IF IsBlank(user_text)
    THEN [e EXCEPT !.pc = "suspended",
                   !.stream = [NoStream EXCEPT !.user_text = user_text,
                                               !.base = Len(e.messages),
                                               !.yielded = <<TextPleaseEnter>>,
                                               !.events = <<"yield">>,
                                               !.outcome = "blank"]]
    ELSE Resume([e EXCEPT
           !.messages = Append(@, [role |-> "user", content |-> user_text]),
           !.stream = [NoStream EXCEPT
                         !.user_text = user_text, !.plan = plan, !.attempt = 1,
                         !.base = Len(e.messages),
                         !.calls = <<GenKwargs(e.params, e.prompt_cache)>>,
                         !.events = <<"append_user", "generate">>]])

\* Sample installations: the quantisation and cache-clearing settings of
\* Params (kv_bits 0 stands for None) and the make_prompt_cache at hand
EngineSetups ==
    {[kv_bits |-> 0, clear_cache_after |-> FALSE, factory |-> "None"],
     [kv_bits |-> 4, clear_cache_after |-> TRUE, factory |-> "sized"],
     [kv_bits |-> 4, clear_cache_after |-> FALSE, factory |-> "unsized"],
     [kv_bits |-> 0, clear_cache_after |-> TRUE, factory |-> "sized"]}

InitEngine ==
    /\ eng \in {NewEngine([model_id |-> ModelM1, system |-> system,
                            max_kv_size |-> max_kv_size, kv_bits |-> setup.kv_bits,
                            clear_cache_after |-> setup.clear_cache_after],
                           setup.factory) :
                  system \in {<<>>, TextSys}, max_kv_size \in {0, 8},
                  setup \in EngineSetups}
    /\ wf = Idle /\ rt = Idle /\ fa = Idle /\ cli = Idle /\ cfg = Idle /\ repl = Idle
    /\ NodesIdle

EngSetSystem ==
    /\ eng.pc = "ready"
    /\ \E text \in {<<>>, TextSys, TextTerse} :
          eng' = [eng EXCEPT !.params.system = text,
                             !.messages = SetSystemMessages(@, text),
                             !.stream = NoStream]
    /\ UNCHANGED <<nodeVars, wf, rt, fa, cli, cfg, repl>>

EngReset ==
    /\ eng.pc = "ready"
    /\ eng' = [eng EXCEPT !.messages = ResetMessages(eng.params), !.stream = NoStream]
    /\ UNCHANGED <<nodeVars, wf, rt, fa, cli, cfg, repl>>

\* change_model(model_id) when load returns
ChangeModel(e, model_id) ==
    LET params == [e.params EXCEPT !.model_id = model_id]
    IN  [e EXCEPT !.params = params, !.model = model_id,
                  !.prompt_cache = MakeCache(params, e.factory),
                  !.messages = ResetMessages(params),
                  !.stream = NoStream]

\* change_model(model_id) when load raises: the exception leaves
\* _load_model at its first statement, after params.model_id was assigned
ChangeModelLoadRaises(e, model_id) ==
    [e EXCEPT !.params.model_id = model_id, !.stream = NoStream]

EngChangeModel ==
    /\ eng.pc = "ready"
    /\ \E model_id \in {ModelM1, ModelM2} : eng' = ChangeModel(eng, model_id)
    /\ UNCHANGED <<nodeVars, wf, rt, fa, cli, cfg, repl>>

\* The model cannot be loaded (no such path or repository, no network)
EngChangeModelFails ==
    /\ eng.pc = "ready"
    /\ \E model_id \in {ModelM1, ModelM2} : eng' = ChangeModelLoadRaises(eng, model_id)
    /\ UNCHANGED <<nodeVars, wf, rt, fa, cli, cfg, repl>>

EngSetMaxKvSize ==
    /\ eng.pc = "ready"
    /\ \E n \in {0, 8} :
          LET params == [eng.params EXCEPT !.max_kv_size = n]
          IN  eng' = [eng EXCEPT !.params = params,
                                 !.prompt_cache = MakeCache(params, eng.factory),
                                 !.stream = NoStream]
    /\ UNCHANGED <<nodeVars, wf, rt, fa, cli, cfg, repl>>

\* stream_reply(user_text) called and its generator advanced to its first
\* yield (or to its end)
EngStreamReply ==
    /\ eng.pc = "ready"
    /\ Len(eng.messages) < MaxTurns
    /\ \E user_text \in {<<>>, <<" ", " ">>, TextHi}, plan \in BackendPlans :
          eng' = StreamReply(eng, user_text, plan)
    /\ UNCHANGED <<nodeVars, wf, rt, fa, cli, cfg, repl>>

\* The caller asks the suspended generator for the next fragment
EngStreamNext ==
    /\ eng.pc = "suspended"
    /\ eng' = IF eng.stream.outcome = "blank" THEN [eng EXCEPT !.pc = "ready"]
              ELSE Resume(eng)
    /\ UNCHANGED <<nodeVars, wf, rt, fa, cli, cfg, repl>>

\* The caller drops the suspended generator
EngStreamAbandon ==
    /\ eng.pc = "suspended"
    /\ eng.stream.outcome # "blank"
    /\ eng' = [eng EXCEPT !.pc = "ready", !.stream.outcome = "abandoned"]
    /\ UNCHANGED <<nodeVars, wf, rt, fa, cli, cfg, repl>>

NextEngine ==
    EngSetSystem \/ EngReset \/ EngChangeModel \/ EngChangeModelFails \/ EngSetMaxKvSize
    \/ EngStreamReply \/ EngStreamNext \/ EngStreamAbandon

SpecEngine == InitEngine /\ [][NextEngine]_vars

\* C15: stream_reply with an empty or whitespace-only text yields exactly
\* one informational fragment and changes nothing: history, params, model
\* and prompt cache stay as they were and no generation call is made.
C15_BlankInput ==
    [][(eng'.stream.events # <<>> /\ Strip(eng'.stream.user_text) = <<>>)
       => /\ eng'.stream.yielded = <<TextPleaseEnter>>
          /\ eng'.stream.calls = <<>>
          /\ eng'.messages = eng.messages
          /\ eng'.params = eng.params
          /\ eng'.model = eng.model
          /\ eng'.prompt_cache = eng.prompt_cache]_vars

\* C15 witness: a whitespace-only text was answered and its stream is over.
C15_Witness ==
    /\ eng.pc = "ready"
    /\ eng.stream.user_text = <<" ", " ">>
    /\ eng.stream.yielded = <<TextPleaseEnter>>
    /\ eng.messages # <<>>

\* C16: a first attempt failing with a TypeError that names kv_bits,
\* kv_group_size, quantized_kv_start or max_kv_size is followed by exactly one
\* second attempt without those four parameters and with every other one
\* kept, and the caller observes exactly the fragments of the second attempt;
\* any other failure, and a failure of the second attempt, propagates.
C16_CapabilityFallback ==
    LET s == eng.stream IN
    s.attempt > 0 =>
       /\ Len(s.calls) = s.attempt
       /\ s.attempt = 2 =>
            /\ s.plan.first.fail.type = "TypeError"
            /\ s.calls[2] = s.calls[1] \ {"kv_bits", "kv_group_size",
                                          "quantized_kv_start", "max_kv_size"}
            /\ Len(s.yielded) <= Len(s.plan.second.frags)
            /\ s.yielded = SubSeq(s.plan.second.frags, 1, Len(s.yielded))
            /\ s.outcome = "exhausted" => s.yielded = s.plan.second.frags
            /\ s.outcome \in {"TypeError", "RuntimeError"} =>
                  s.plan.second.fail.type = s.outcome
       /\ (s.attempt = 1 /\ s.outcome \in {"TypeError", "RuntimeError"}) =>
            /\ s.plan.first.fail.type = s.outcome
            /\ ~(s.outcome = "TypeError" /\ s.plan.first.fail.msg \in {MsgKvBits, MsgMaxKvSize})

\* C17: draining stream_reply(text) for a non-blank text appends exactly the
\* user turn, before the first fragment, and one assistant turn holding the
\* concatenation of all fragments, once the stream is exhausted; a stream
\* that is not exhausted appends no assistant turn; the device cache is
\* cleared iff clear_cache_after is set, and after the assistant turn.
C17_DrainedStream ==
    LET s == eng.stream
        user == [role |-> "user", content |-> s.user_text]
    IN  s.attempt > 0 =>
           /\ s.events[1] = "append_user"
           /\ Count(s.events, "append_user") = 1
           /\ eng.messages[s.base + 1] = user
           /\ IF s.outcome = "exhausted"
              THEN /\ Len(eng.messages) = s.base + 2
                   /\ eng.messages[s.base + 2] =
                         [role |-> "assistant", content |-> Flatten(s.yielded)]
                   /\ Count(s.events, "append_assistant") = 1
                   /\ Count(s.events, "clear_cache") =
                         (IF eng.params.clear_cache_after THEN 1 ELSE 0)
                   /\ \A k \in 1..Len(s.events) :
                         /\ s.events[k] = "yield" =>
                               \E j \in (k + 1)..Len(s.events) :
                                  s.events[j] = "append_assistant"
                         /\ s.events[k] = "clear_cache" =>
                               k = Len(s.events) /\ s.events[k - 1] = "append_assistant"
              ELSE /\ Len(eng.messages) = s.base + 1
                   /\ Count(s.events, "append_assistant") = 0
                   /\ Count(s.events, "clear_cache") = 0

\* C17 witness: a drained stream of several fragments from both attempts,
\* with the cache cleared afterwards.
C17_Witness ==
    /\ eng.stream.outcome = "exhausted"
    /\ eng.stream.attempt = 2
    /\ Len(eng.stream.yielded) >= 3
    /\ eng.params.clear_cache_after

\* A stream abandoned after a fragment
C17_WitnessAbandoned ==
    /\ eng.stream.outcome = "abandoned"
    /\ eng.stream.yielded # <<>>

\* C18: whatever operations ran, the history has at most one system turn,
\* first if present, and the other turns alternate user, assistant, starting
\* with user.
C18_HistoryShape ==
    eng.pc = "ready" =>
       LET rest == IF eng.messages # <<>> /\ eng.messages[1].role = "system"
                   THEN Tail(eng.messages) ELSE eng.messages
       IN  \A k \in 1..Len(rest) :
              rest[k].role = (IF k % 2 = 1 THEN "user" ELSE "assistant")

\* C24: reset leaves exactly the system turn (if params.system is not
\* empty) in the history, and the next reply is generated from a context with
\* nothing of the earlier turns: the prompt cache _gen_kwargs hands to the
\* backend holds nothing either.
C24_ResetClearsContext ==
    [][EngReset =>
         /\ eng'.messages = ResetMessages(eng'.params)
         /\ "prompt_cache" \in GenKwargs(eng'.params, eng'.prompt_cache)
               => ~eng'.prompt_cache.holds]_vars

\* C28: in every reachable state params.model_id identifies the loaded
\* model, also after a change_model whose load failed.
C28_ModelIdIsLoadedModel ==
    eng.params.model_id = eng.model

\* C30: the history starts with a system turn iff params.system is not
\* empty, and then that turn's content is params.system.
C30_SystemTurnInSync ==
    /\ (eng.messages # <<>> /\ eng.messages[1].role = "system")
          <=> eng.params.system # <<>>
    /\ eng.params.system # <<>> => eng.messages[1].content = eng.params.system

\* C30 witness: the system prompt was replaced after a completed turn.
C30_Witness ==
    /\ eng.params.system = TextTerse
    /\ Len(eng.messages) = 3
    /\ eng.messages[1] = SystemTurn(TextTerse)

\* The system prompt was cleared after a completed turn
C30_WitnessCleared ==
    /\ eng.params.system = <<>>
    /\ Len(eng.messages) = 2
    /\ eng.messages[1].role = "user"
    /\ eng.model = ModelM2

(***************************************************************************)
(* mlxchat configuration (mlxchat/config.py, mlxchat/cli.py)               *)
(***************************************************************************)
\* Values of settings: Python's None, an int, a bool or a str
None == [t |-> "None", n |-> 0, s |-> <<>>]
IntValue(n) == [t |-> "int", n |-> n, s |-> <<>>]
BoolValue(b) == [t |-> "bool", n |-> IF b THEN 1 ELSE 0, s |-> <<>>]
StrValue(s) == [t |-> "str", n |-> 0, s |-> s]

\* A flag that is not on the command line, and one given without a value
FlagAbsent == [t |-> "absent", n |-> 0, s |-> <<>>]
FlagBare == [t |-> "bare", n |-> 0, s |-> <<>>]

\* The setting keys followed here
SettingKeys == {"kv_bits", "max_tokens", "clear_cache_after"}

DEFAULTS ==
    [kv_bits |-> None, max_tokens |-> IntValue(512), clear_cache_after |-> BoolValue(FALSE)]

\* str(v)
StrOf(v) ==
    CASE v.t = "str" -> v.s
      [] v.t = "int" -> DecimalChars(v.n)
      [] v.t = "bool" -> IF v.n = 1 THEN <<"T", "r", "u", "e">> ELSE <<"F", "a", "l", "s", "e">>
      [] OTHER -> <<"N", "o", "n", "e">>

DigitValue(c) == CHOOSE d \in 0..9 : Digits[d + 1] = c

RECURSIVE DecimalValue(_)
DecimalValue(s) ==
    IF s = <<>> THEN 0 ELSE 10 * DecimalValue(SubSeq(s, 1, Len(s) - 1)) + DigitValue(s[Len(s)])

\* int(v): None stands for the exception it raises
IntOf(v) ==
    CASE v.t \in {"int", "bool"} -> IntValue(v.n)
      [] v.t = "str" ->
           LET s == Strip(v.s)
           IN  IF s # <<>> /\ \A k \in 1..Len(s) : s[k] \in Range(Digits)
               THEN IntValue(DecimalValue(s)) ELSE None
      [] OTHER -> None

\* _coerce(name, v)
Coerce(name, v) ==
    IF v = None THEN None
    ELSE IF name = "max_tokens" THEN IntOf(v)
    ELSE IF name = "kv_bits"
    THEN IF Lower(Strip(StrOf(v))) \in {<<>>, <<"n", "o", "n", "e">>} THEN None
         ELSE IntOf(v)
    ELSE IF v.t = "bool" THEN v
    ELSE BoolValue(Lower(StrOf(v)) \in {<<"1">>, <<"t", "r", "u", "e">>, <<"t">>,
                                  <<"y", "e", "s">>, <<"y">>})

\* overlay(d): None in d stands for a key d does not hold, or holds as None
Overlay(settings, d) ==
    [k \in SettingKeys |-> IF d[k] # None THEN d[k] ELSE settings[k]]

\* merged_config(): the settings part
MergedConfig(cfg_user, cfg_proj, environ) ==
    LET env == [k \in SettingKeys |-> Coerce(k, environ[k])]
    IN  Overlay(Overlay(Overlay(DEFAULTS, cfg_user), cfg_proj), env)

\* parse_args(cfg): a flag that is not given leaves the default cfg[k];
\* --kv-bits without a value stores None, --clear-cache-after stores True
ParseArgs(merged, flags) ==
    [k \in SettingKeys |-> IF flags[k] = FlagAbsent THEN merged[k]
                           ELSE IF flags[k] = FlagBare
                           THEN (IF k = "kv_bits" THEN None ELSE BoolValue(TRUE))
                           ELSE flags[k]]

\* What the files, the environment and the command line may hold
UserFiles ==
    [kv_bits : {None, IntValue(4)}, max_tokens : {None, IntValue(256)}, clear_cache_after : {None}]
ProjectFiles ==
    [kv_bits : {None, IntValue(8)}, max_tokens : {None}, clear_cache_after : {None, BoolValue(TRUE)}]
Environments ==
    [kv_bits : {None, StrValue(<<>>), StrValue(<<"N", "o", "n", "e">>), StrValue(<<" ", "2">>),
                StrValue(<<"x">>)},
     max_tokens : {None, StrValue(<<"6", "4">>), StrValue(<<>>)},
     clear_cache_after : {None, StrValue(<<"Y", "e", "s">>), StrValue(<<"0">>)}]
CliFlags ==
    [kv_bits : {FlagAbsent, FlagBare, IntValue(6)},
     max_tokens : {FlagAbsent, IntValue(32)},
     clear_cache_after : {FlagAbsent, FlagBare}]

InitConfig ==
    /\ cfg \in {[pc |-> "start", cfg_user |-> u, cfg_proj |-> p, environ |-> e,
                 flags |-> f, settings |-> DEFAULTS, args |-> DEFAULTS] :
                u \in UserFiles, p \in ProjectFiles, e \in Environments, f \in CliFlags}
    /\ wf = Idle /\ rt = Idle /\ fa = Idle /\ cli = Idle /\ eng = Idle /\ repl = Idle
    /\ NodesIdle

CfgMergedConfig ==
    /\ cfg.pc = "start"
    /\ cfg' = [cfg EXCEPT !.pc = "merged",
                          !.settings = MergedConfig(cfg.cfg_user, cfg.cfg_proj, cfg.environ)]
    /\ UNCHANGED <<nodeVars, wf, rt, fa, cli, eng, repl>>

CfgParseArgs ==
    /\ cfg.pc = "merged"
    /\ cfg' = [cfg EXCEPT !.pc = "parsed", !.args = ParseArgs(cfg.settings, cfg.flags)]
    /\ UNCHANGED <<nodeVars, wf, rt, fa, cli, eng, repl>>

NextConfig == CfgMergedConfig \/ CfgParseArgs

SpecConfig == InitConfig /\ [][NextConfig]_vars

\* C19: every setting comes from the highest of defaults < user file <
\* project file < environment that supplies it; an environment value that
\* coerces beats the files, MLXCHAT_KV_BITS "" or "none" included, which
\* gives kv_bits absent whatever the files say; an environment value that
\* fails coercion is discarded; a command-line flag beats them all.
C19_Precedence ==
    cfg.pc = "parsed" =>
       \A k \in SettingKeys :
          LET e == cfg.environ[k]
              spelled_absent ==
                 k = "kv_bits" /\ e # None
                 /\ Lower(Strip(e.s)) \in {<<>>, <<"n", "o", "n", "e">>}
              from_files ==
                 IF cfg.cfg_proj[k] # None THEN cfg.cfg_proj[k]
                 ELSE IF cfg.cfg_user[k] # None THEN cfg.cfg_user[k]
                 ELSE DEFAULTS[k]
              expected ==
                 IF e = None THEN from_files
                 ELSE IF spelled_absent THEN None
                 ELSE IF k = "clear_cache_after"
                 THEN BoolValue(e.s = <<"Y", "e", "s">>)
                 ELSE IF IntOf(e) # None THEN IntOf(e)
                 ELSE from_files
          IN  /\ cfg.settings[k] = expected
              /\ cfg.args[k] = (IF cfg.flags[k] = FlagAbsent THEN expected
                                ELSE ParseArgs(expected, cfg.flags)[k])

(***************************************************************************)
(* CoverageCritic._build_coverage_map called on its own                    *)
(***************************************************************************)
\* related_requirements as an LLM may write them: any order, an AC twice
RepeatedRelatedChoices ==
    {<<"AC1">>, <<"AC2", "AC1">>, <<"AC1", "AC1">>, <<"AC2", "AC1", "AC2">>}

\* Scenario lists with pairwise different IDs in any order
CoverageScenarioLists ==
    UNION {{[k \in 1..n |-> [id |-> SCNId(ids[k]), title |-> TitleValidLogin,
                             type |-> "functional", risk |-> "low",
                             related_requirements |-> rel[k]]] :
              ids \in {f \in [1..n -> 1..(MaxCriticScenarios + 1)] :
                          \A i, j \in 1..n : i # j => f[i] # f[j]},
              rel \in [1..n -> RepeatedRelatedChoices]} :
           n \in 0..MaxCriticScenarios}

InitCoverage ==
    /\ c_op = "none"
    /\ c_acs = <<>>
    /\ c_scenarios \in CoverageScenarioLists
    /\ c_test_cases = <<>>
    /\ c_result = <<>>
    /\ ParserIdle /\ GenIdle /\ SynthIdle /\ ExtIdle

BuildCoverageMapCall ==
    /\ c_op \in {"none", "_build_coverage_map"}
    /\ \E scenarios \in {c_scenarios} \cup CoverageScenarioLists :
          /\ c_scenarios' = scenarios
          /\ c_result' = BuildCoverageMap(scenarios)
    /\ c_op' = "_build_coverage_map"
    /\ UNCHANGED <<c_acs, c_test_cases, parserVars, genVars, synthVars>>
    /\ UNCHANGED extVars

NextCoverage == BuildCoverageMapCall

SpecCoverage == InitCoverage /\ [][NextCoverage]_vars

\* C21: the coverage map's keys are exactly the AC IDs some scenario
\* declares, and each value is the alphabetically sorted list of the distinct
\* IDs of the scenarios declaring that AC, no scenario ID repeated even when
\* a scenario lists the AC twice.
C21_CoverageMap ==
    c_op = "_build_coverage_map" =>
       /\ DOMAIN c_result =
             UNION {Range(c_scenarios[k].related_requirements) :
                       k \in 1..Len(c_scenarios)}
       /\ \A ac_id \in DOMAIN c_result :
             LET ids == c_result[ac_id] IN
             /\ Range(ids) = {c_scenarios[k].id : k \in
                                {j \in 1..Len(c_scenarios) :
                                    ac_id \in Range(c_scenarios[j].related_requirements)}}
             /\ \A i, j \in 1..Len(ids) : i < j => IdRank(ids[i]) < IdRank(ids[j])

(***************************************************************************)
(* mlxchat REPL (mlxchat/cli.py main) and slash commands                   *)
(* (mlxchat/commands.py)                                                   *)
(***************************************************************************)
MaxLines == 2         \* input lines read in one session

\* REGISTRY: the names each @command decorator registers, with the handler
REGISTRY ==
    {<<<<"h", "e", "l", "p">>, "cmd_help">>,
     <<<<"r", "e", "s", "e", "t">>, "cmd_reset">>,
     <<<<"s", "y", "s", "t", "e", "m">>, "cmd_system">>,
     <<<<"s", "y", "s", "t", "e", "m", "?">>, "cmd_system_show">>,
     <<<<"s", "h", "o", "w", "_", "s", "y", "s", "t", "e", "m">>, "cmd_system_show">>,
     <<<<"s", "y", "s">>, "cmd_system_show">>,
     <<<<"s", "h", "o", "w", "-", "s", "y", "s", "t", "e", "m">>, "cmd_system_show">>,
     <<<<"t", "e", "m", "p">>, "cmd_temp">>,
     <<<<"t", "o", "p", "_", "p">>, "cmd_top_p">>,
     <<<<"t", "o", "p", "p">>, "cmd_top_p">>,
     <<<<"t", "o", "p", "-", "p">>, "cmd_top_p">>,
     <<<<"m", "a", "x">>, "cmd_max">>,
     <<<<"m", "o", "d", "e", "l">>, "cmd_model">>,
     <<<<"c", "o", "n", "f", "i", "g">>, "cmd_config">>,
     <<<<"a", "l", "i", "a", "s", "e", "s">>, "cmd_aliases">>,
     <<<<"m", "e", "m">>, "cmd_mem">>,
     <<<<"c", "l", "e", "a", "r">>, "cmd_clear">>,
     <<<<"k", "v">>, "cmd_kv">>,
     <<<<"k", "v", "_", "b", "i", "t", "s">>, "cmd_kv">>,
     <<<<"m", "a", "x", "_", "k", "v">>, "cmd_max_kv">>,
     <<<<"m", "a", "x", "k", "v">>, "cmd_max_kv">>}

\* CMD.get(cmd)
CMDGet(cmd) ==
    IF \E r \in REGISTRY : r[1] = cmd
    THEN (CHOOSE r \in REGISTRY : r[1] = cmd)[2] ELSE "None"

\* cfg["aliases"] of the session
TextFast ==     <<"f", "a", "s", "t">>
Aliases == [a \in {TextFast, <<"b", "a", "s", "e">>} |-> IF a = TextFast THEN ModelM2 ELSE ModelM1]

\* Index of the first whitespace character of t, Len(t) + 1 without one
FirstSpace(t) ==
    IF \E k \in 1..Len(t) : t[k] \in Whitespace
    THEN CHOOSE k \in 1..Len(t) :
            t[k] \in Whitespace /\ \A j \in 1..(k - 1) : t[j] \notin Whitespace
    ELSE Len(t) + 1

\* parts[0] and arg of parts = user.split(maxsplit=1), for a trimmed
\* non-empty user
FirstPart(user) == SubSeq(user, 1, FirstSpace(user) - 1)
ArgPart(user) == LStrip(SubSeq(user, FirstSpace(user), Len(user)))

\* parts[0][1:], used as the command name as it was typed
CommandToken_AsTyped(user) == Tail(FirstPart(user))

\* cmd = parts[0][1:].lower()
CommandToken(user) == Lower(Tail(FirstPart(user)))

\* arg.split()
RECURSIVE SplitWords(_)
SplitWords(s) ==
    LET w == LStrip(s)
    IN  IF w = <<>> THEN <<>>
        ELSE <<FirstPart(w)>> \o SplitWords(SubSeq(w, FirstSpace(w), Len(w)))

\* A float as mantissa m and number e of decimals: m / 10^e
Float(m, e) == [m |-> m, e |-> e]
NoFloat == [ok |-> FALSE, m |-> 0, e |-> 0]

IsDigits(s) == s # <<>> /\ \A k \in 1..Len(s) : s[k] \in Range(Digits)

RECURSIVE DropTrailingZeros(_)
DropTrailingZeros(d) ==
    IF d # <<>> /\ d[Len(d)] = "0" THEN DropTrailingZeros(SubSeq(d, 1, Len(d) - 1)) ELSE d

\* float(arg) for unsigned decimal literals; ok = FALSE stands for the
\* ValueError
FloatOf(arg) ==
    LET s == Strip(arg)
        dots == {k \in 1..Len(s) : s[k] = "."}
    IN  IF dots = {} THEN (IF IsDigits(s) THEN [ok |-> TRUE, m |-> DecimalValue(s), e |-> 0]
                           ELSE NoFloat)
        ELSE IF Cardinality(dots) > 1 THEN NoFloat
        ELSE LET k == CHOOSE d \in dots : TRUE
                 whole == SubSeq(s, 1, k - 1)
                 frac == SubSeq(s, k + 1, Len(s))
                 kept == DropTrailingZeros(frac)
             IN  IF IsDigits(whole \o frac)
                 THEN [ok |-> TRUE, m |-> DecimalValue(whole \o kept), e |-> Len(kept)]
                 ELSE NoFloat

\* int(arg): None stands for the ValueError
ParseInt(arg) == IntOf(StrValue(arg))

\* What a handler leaves: the engine, what it printed, whether it raised
CmdResult(e, out) == [eng |-> e, out |-> out, raised |-> FALSE]

CmdReset(arg, e) ==
    CmdResult([e EXCEPT !.messages = ResetMessages(e.params)], <<"(context cleared)">>)

CmdSystem(arg, e) ==
    CmdResult([e EXCEPT !.params.system = arg, !.messages = SetSystemMessages(@, arg)],
              <<IF arg # <<>> THEN "(system set to: ...)" ELSE "(system set to: CLEARED)">>)

CmdSystemShow(arg, e) ==
    CmdResult(e, <<IF e.params.system = <<>> THEN "(system prompt: NONE)"
                   ELSE "- System prompt -">>)

CmdTemp(arg, e) ==
    LET v == FloatOf(arg)
    IN  IF v.ok THEN CmdResult([e EXCEPT !.params.temp = Float(v.m, v.e)], <<"(temp = ...)">>)
        ELSE CmdResult(e, <<"Usage: /temp <float>">>)

CmdTopP(arg, e) ==
    LET v == FloatOf(arg)
    IN  IF v.ok THEN CmdResult([e EXCEPT !.params.top_p = Float(v.m, v.e)], <<"(top_p = ...)">>)
        ELSE CmdResult(e, <<"Usage: /top_p <float>">>)

CmdMax(arg, e) ==
    LET v == ParseInt(arg)
    IN  IF v # None THEN CmdResult([e EXCEPT !.params.max_tokens = v.n], <<"(max_tokens = ...)">>)
        ELSE CmdResult(e, <<"Usage: /max <int>">>)

\* aliases.get(arg, arg)
ResolveAlias(aliases, arg) == IF arg \in DOMAIN aliases THEN aliases[arg] ELSE arg

\* cmd_model switching also to the model that is loaded
CmdModel_AlwaysLoads(arg, e, aliases, loads) ==
    IF arg = <<>> THEN CmdResult(e, <<"Usage: /model <alias|full-id>">>)
    ELSE LET new_id == ResolveAlias(aliases, arg)
         IN  IF loads THEN CmdResult(ChangeModel(e, new_id), <<"(model = ...)">>)
             ELSE [eng |-> ChangeModelLoadRaises(e, new_id), out |-> <<>>, raised |-> TRUE]

\* cmd_model; loads says whether load(new_id) returns
CmdModel(arg, e, aliases, loads) ==
    IF arg = <<>> THEN CmdResult(e, <<"Usage: /model <alias|full-id>">>)
    ELSE LET new_id == ResolveAlias(aliases, arg)
         IN  IF new_id = e.params.model_id THEN CmdResult(e, <<"(model unchanged: ...)">>)
             ELSE IF loads THEN CmdResult(ChangeModel(e, new_id), <<"(model = ...)">>)
             ELSE [eng |-> ChangeModelLoadRaises(e, new_id), out |-> <<>>, raised |-> TRUE]

UsageKv == "Usage: /kv <bits> <group> [start]   or: /kv none"

\* cmd_kv assigning each field as soon as it is parsed
CmdKv_AssignsAsParsed(arg, e) ==
    LET parts == SplitWords(arg)
    IN  IF Lower(Strip(arg)) = <<"n", "o", "n", "e">>
        THEN CmdResult([e EXCEPT !.params.kv_bits = 0], <<"(KV quantization disabled)">>)
        ELSE IF Len(parts) < 2 THEN CmdResult(e, <<UsageKv>>)
        ELSE LET bits == ParseInt(parts[1])
                 group == ParseInt(parts[2])
                 start == IF Len(parts) > 2 THEN ParseInt(parts[3])
                          ELSE IntValue(e.params.quantized_kv_start)
                 e1 == IF bits # None THEN [e EXCEPT !.params.kv_bits = bits.n] ELSE e
                 e2 == IF bits # None /\ group # None
                       THEN [e1 EXCEPT !.params.kv_group_size = group.n] ELSE e1
             IN  IF None \in {bits, group, start} THEN CmdResult(e2, <<UsageKv>>)
                 ELSE CmdResult([e2 EXCEPT !.params.quantized_kv_start = start.n],
                                <<"(kv_bits=..., group=..., start=...)">>)

\* cmd_kv (kv_bits 0 stands for None)
CmdKv(arg, e) ==
    LET parts == SplitWords(arg)
    IN  IF Lower(Strip(arg)) = <<"n", "o", "n", "e">>
        THEN CmdResult([e EXCEPT !.params.kv_bits = 0], <<"(KV quantization disabled)">>)
        ELSE IF Len(parts) < 2 THEN CmdResult(e, <<UsageKv>>)
        ELSE LET bits == ParseInt(parts[1])
                 group == ParseInt(parts[2])
                 start == IF Len(parts) > 2 THEN ParseInt(parts[3])
                          ELSE IntValue(e.params.quantized_kv_start)
             IN  IF None \in {bits, group, start} THEN CmdResult(e, <<UsageKv>>)
                 ELSE CmdResult([e EXCEPT !.params.kv_bits = bits.n,
                                          !.params.kv_group_size = group.n,
                                          !.params.quantized_kv_start = start.n],
                                <<"(kv_bits=..., group=..., start=...)">>)

\* cmd_max_kv, with Engine.set_max_kv_size
CmdMaxKv(arg, e) ==
    LET v == ParseInt(arg)
    IN  IF v # None
        THEN LET params == [e.params EXCEPT !.max_kv_size = v.n]
             IN  CmdResult([e EXCEPT !.params = params,
                                     !.prompt_cache = MakeCache(params, e.factory)],
                           <<"(max_kv_size = ...)">>)
        ELSE CmdResult(e, <<"Usage: /max_kv <int>">>)

\* fn(arg, eng, aliases) for the handler named fn
Handle(fn, arg, e, aliases, loads) ==
    CASE fn = "cmd_help" -> CmdResult(e, <<"Slash commands: ...">>)
      [] fn = "cmd_reset" -> CmdReset(arg, e)
      [] fn = "cmd_system" -> CmdSystem(arg, e)
      [] fn = "cmd_system_show" -> CmdSystemShow(arg, e)
      [] fn = "cmd_temp" -> CmdTemp(arg, e)
      [] fn = "cmd_top_p" -> CmdTopP(arg, e)
      [] fn = "cmd_max" -> CmdMax(arg, e)
      [] fn = "cmd_model" -> CmdModel(arg, e, aliases, loads)
      [] fn = "cmd_config" -> CmdResult(e, <<"- Current config -">>)
      [] fn = "cmd_aliases" -> CmdResult(e, <<"- Model aliases -">>)
      [] fn = "cmd_mem" -> CmdResult(e, <<"(mem) ...">>)
      [] fn = "cmd_clear" -> CmdResult(e, <<"(cache cleared)">>)
      [] fn = "cmd_kv" -> CmdKv(arg, e)
      [] OTHER -> CmdMaxKv(arg, e)

\* What the user may type at the prompt
InputLines ==
    {<<>>,
     <<" ", " ">>,
     <<"e", "x", "i", "t">>,
     <<" ", "Q", "U", "I", "T", " ">>,
     <<"e", "x", "i", "t", " ", "n", "o", "w">>,
     <<"h", "i">>,
     <<"/">>,
     <<"/", "b", "o", "g", "u", "s">>,
     <<"/", "H", "E", "L", "P">>,
     <<"/", "r", "e", "s", "e", "t">>,
     <<"/", "s", "y", "s", "t", "e", "m", " ", "t", "e", "r", "s", "e">>,
     <<"/", "s", "y", "s", "t", "e", "m">>,
     <<"/", "t", "e", "m", "p", " ", "0", ".", "5">>,
     <<"/", "t", "e", "m", "p", " ", "h", "o", "t">>,
     <<"/", "t", "o", "p", "p", " ", "0", ".", "5", "0">>,
     <<"/", "t", "o", "p", "-", "p", " ", "x">>,
     <<"/", "m", "a", "x", " ", "9">>,
     <<"/", "m", "a", "x", " ", "1", ".", "5">>,
     <<"/", "m", "o", "d", "e", "l", " ", "m", "2">>,
     <<"/", "m", "o", "d", "e", "l", " ", "f", "a", "s", "t">>,
     <<"/", "m", "o", "d", "e", "l", " ", "m", "1">>,
     <<"/", "m", "o", "d", "e", "l">>,
     <<"/", "k", "v", " ", "n", "o", "n", "e">>,
     <<"/", "k", "v", " ", "8", " ", "3", "2">>,
     <<"/", "k", "v", " ", "8", " ", "3", "2", " ", "2">>,
     <<"/", "k", "v", " ", "8", " ", "x">>,
     <<"/", "k", "v", " ", "8", " ", "3", "2", " ", "x">>,
     <<"/", "k", "v", " ", "8">>,
     <<"/", "m", "a", "x", "_", "k", "v", " ", "1", "6">>,
     <<"/", "m", "a", "x", "k", "v", " ", "x">>}

\* How the backend may answer a chat turn of the session: a full reply, an
\* empty one, a failure, and a reply after the capability fallback
ReplPlans ==
    {p \in BackendPlans :
        \/ p.first.fail = NoFailure /\ Len(p.first.frags) \in {0, MaxFragments}
        \/ p.first.fail.type = "RuntimeError" /\ p.first.frags = <<>>
        \/ /\ IsCapabilityError(p.first.fail) /\ Len(p.first.frags) = 1
           /\ Len(p.second.frags) = 1 /\ p.second.fail = NoFailure}

NewRepl ==
    [pc |-> "input", status |-> -1, n |-> 0, line |-> <<>>, kind |-> "none",
     handler |-> "None", arg |-> <<>>, out |-> <<>>, printed |-> <<>>]

InitRepl ==
    /\ eng \in {NewEngine([temp |-> Float(7, 1), top_p |-> Float(9, 1), max_tokens |-> 512,
                            system |-> system, model_id |-> ModelM1, max_kv_size |-> 8,
                            kv_bits |-> setup.kv_bits, kv_group_size |-> 64,
                            quantized_kv_start |-> 0,
                            clear_cache_after |-> setup.clear_cache_after],
                           setup.factory) :
                  system \in {<<>>, TextSys}, setup \in EngineSetups}
    /\ repl = NewRepl
    /\ wf = Idle /\ rt = Idle /\ fa = Idle /\ cli = Idle /\ cfg = Idle
    /\ NodesIdle

\* The loop of main after a next() on the stream_reply generator: a fragment
\* is printed, or the for loop ends and print() follows, or the exception
\* leaves main
AfterNext(r, e) ==
    IF e.pc = "suspended"
    THEN [r EXCEPT !.pc = "streaming",
                   !.printed = Append(@, e.stream.yielded[Len(e.stream.yielded)])]
    ELSE IF e.stream.outcome = "exhausted"
    THEN [r EXCEPT !.pc = "input", !.out = Append(@, "\n")]
    ELSE [r EXCEPT !.pc = "done", !.status = 1]

\* One iteration of the while loop: input(), and the branch taken up to its
\* continue, its break, or the first next() of the chat turn's for loop
ReplInput ==
    /\ repl.pc = "input"
    /\ repl.n < MaxLines
    /\ \E raw \in InputLines :
          LET user == Strip(raw)
              e == [eng EXCEPT !.stream = NoStream]
              read == [NewRepl EXCEPT !.n = repl.n + 1, !.line = user]
          IN  IF user = <<>>
              THEN /\ repl' = [read EXCEPT !.kind = "blank"]
                   /\ eng' = e
              ELSE IF Lower(user) \in {<<"e", "x", "i", "t">>, <<"q", "u", "i", "t">>}
              THEN /\ repl' = [read EXCEPT !.kind = "exit", !.pc = "done", !.status = 0]
                   /\ eng' = e
              ELSE IF Head(user) = "/"
              THEN LET fn == CMDGet(CommandToken(user))
                       arg == ArgPart(user)
                   IN  IF fn = "None"
                       THEN /\ repl' = [read EXCEPT !.kind = "unknown",
                                           !.out = <<"Unknown command. Try /help.">>]
                            /\ eng' = e
                       ELSE \E loads \in (IF fn = "cmd_model" THEN BOOLEAN ELSE {TRUE}) :
                              LET r == Handle(fn, arg, e, Aliases, loads)
                              IN  /\ repl' = [read EXCEPT
                                                !.kind = "command", !.handler = fn,
                                                !.arg = arg, !.out = r.out,
                                                !.pc = IF r.raised THEN "done" ELSE "input",
                                                !.status = IF r.raised THEN 1 ELSE -1]
                                  /\ eng' = r.eng
              ELSE \E plan \in ReplPlans :
                     LET started == StreamReply(e, user, plan)
                     IN  /\ repl' = AfterNext([read EXCEPT !.kind = "chat",
                                                            !.out = <<"Llama: ">>], started)
                         /\ eng' = started
    /\ UNCHANGED <<nodeVars, wf, rt, fa, cli, cfg>>

\* The for loop of the chat turn asks for the next fragment
ReplNextFragment ==
    /\ repl.pc = "streaming"
    /\ eng' = Resume(eng)
    /\ repl' = AfterNext(repl, eng')
    /\ UNCHANGED <<nodeVars, wf, rt, fa, cli, cfg>>

\* KeyboardInterrupt while input() waits or while a fragment is awaited
ReplInterrupt ==
    /\ repl.pc \in {"input", "streaming"}
    /\ repl' = [repl EXCEPT !.pc = "done", !.status = 0, !.kind = "interrupt"]
    /\ eng' = IF repl.pc = "streaming"
              THEN [eng EXCEPT !.pc = "ready", !.stream.outcome = "abandoned"]
              ELSE eng
    /\ UNCHANGED <<nodeVars, wf, rt, fa, cli, cfg>>

\* input() raises EOFError, which main does not catch
ReplEndOfInput ==
    /\ repl.pc = "input"
    /\ repl' = [repl EXCEPT !.pc = "done", !.status = 1, !.kind = "eof"]
    /\ UNCHANGED <<nodeVars, wf, rt, fa, cli, eng, cfg>>

NextRepl == ReplInput \/ ReplNextFragment \/ ReplInterrupt \/ ReplEndOfInput

SpecRepl == InitRepl /\ [][NextRepl]_vars

\* The part of the engine a user of it can tell apart
EngineState(e) ==
    [params |-> e.params, model |-> e.model, prompt_cache |-> e.prompt_cache,
     messages |-> e.messages]

UserTurns(messages) == Len(SelectSeq(messages, LAMBDA m : m.role = "user"))

\* C22: dispatch of one trimmed input line. Blank: nothing changes and the
\* loop continues. exit or quit in any letter case: the loop ends with
\* status 0 and the engine is not called. A line starting with /: exactly the
\* handler registered under the lower-cased command token is invoked, or
\* "Unknown command. Try /help." is printed and the engine is unchanged; no
\* chat turn starts. Any other line: exactly one stream_reply, its fragments
\* printed in order. An interrupt ends the loop with status 0.
C22_ReplDispatch ==
    [][
      /\ repl'.n = repl.n + 1 =>
            LET user == repl'.line
                same == EngineState(eng') = EngineState(eng)
                quiet == eng'.stream = NoStream
            IN  IF user = <<>>
                THEN same /\ quiet /\ repl'.pc = "input" /\ repl'.out = <<>>
                     /\ repl'.handler = "None"
                ELSE IF Lower(user) \in {<<"e", "x", "i", "t">>, <<"q", "u", "i", "t">>}
                THEN same /\ quiet /\ repl'.pc = "done" /\ repl'.status = 0
                     /\ repl'.handler = "None"
                ELSE IF user[1] = "/"
                THEN /\ quiet
                     /\ UserTurns(eng'.messages) <= UserTurns(eng.messages)
                     /\ LET token == Lower(SubSeq(user, 2, FirstSpace(user) - 1))
                        IN  IF \E r \in REGISTRY : r[1] = token
                            THEN <<token, repl'.handler>> \in REGISTRY
                            ELSE /\ repl'.handler = "None" /\ same
                                 /\ repl'.out = <<"Unknown command. Try /help.">>
                ELSE /\ repl'.handler = "None"
                     /\ eng'.stream.user_text = user
                     /\ eng'.stream.attempt >= 1
                     /\ UserTurns(eng'.messages) = UserTurns(eng.messages) + 1
                     /\ [eng' EXCEPT !.messages = <<>>, !.stream = NoStream,
                                     !.prompt_cache = NoCache, !.pc = "ready"]
                          = [eng EXCEPT !.messages = <<>>, !.stream = NoStream,
                                        !.prompt_cache = NoCache, !.pc = "ready"]
      /\ repl'.kind = "chat" =>
            /\ repl'.printed = eng'.stream.yielded
            /\ eng'.stream.user_text = repl'.line
            /\ repl'.n = repl.n => UserTurns(eng'.messages) = UserTurns(eng.messages)
      /\ (repl'.kind = "interrupt" /\ repl.kind # "interrupt") =>
            /\ repl'.pc = "done" /\ repl'.status = 0
            /\ EngineState(eng') = EngineState(eng)]_vars

\* C22 witness: "/HELP" reached cmd_help after a chat turn whose fragments
\* were all printed.
C22_Witness ==
    /\ repl.n = 2 /\ repl.handler = "cmd_help"
    /\ repl.line = <<"/", "H", "E", "L", "P">>
    /\ Len(eng.messages) >= 2
    /\ eng.messages[Len(eng.messages)].role = "assistant"
    /\ eng.messages[Len(eng.messages)].content # <<>>

\* A chat turn taken for "exit now", streamed to its end
C22_WitnessChat ==
    /\ repl.kind = "chat" /\ repl.pc = "input"
    /\ repl.line = <<"e", "x", "i", "t", " ", "n", "o", "w">>
    /\ Len(repl.printed) = MaxFragments

\* An interrupt while a fragment was awaited
C22_WitnessInterrupt ==
    /\ repl.kind = "interrupt" /\ repl.status = 0
    /\ eng.stream.outcome = "abandoned"

\* C23: /model <arg> resolves arg through the alias table, other names
\* standing for themselves. For the model already current nothing is loaded
\* and history, cache and params stay; otherwise model and prompt cache are
\* those of the new ID and, the switch having succeeded, the history is
\* exactly the system turn (if any).
C23_ModelCommand ==
    [][(repl'.n = repl.n + 1 /\ repl'.handler = "cmd_model" /\ repl'.arg # <<>>) =>
          LET arg == repl'.arg
              new_id == IF arg \in DOMAIN Aliases THEN Aliases[arg] ELSE arg
          IN  IF new_id = eng.params.model_id
              THEN EngineState(eng') = EngineState(eng) /\ repl'.pc = "input"
              ELSE \/ repl'.pc # "input"
                   \/ /\ eng'.model = new_id
                      /\ eng'.params = [eng.params EXCEPT !.model_id = new_id]
                      /\ eng'.prompt_cache.model \in {new_id, <<>>}
                      /\ ~eng'.prompt_cache.holds
                      /\ eng'.messages =
                            (IF eng.params.system # <<>>
                             THEN <<[role |-> "system", content |-> eng.params.system]>>
                             ELSE <<>>)]_vars

\* C23 witness: "/model fast", typed as the second line, switched to m2.
C23_Witness ==
    /\ repl.n = 2 /\ repl.handler = "cmd_model" /\ repl.arg = TextFast
    /\ repl.pc = "input"
    /\ eng.model = ModelM2 /\ eng.params.model_id = ModelM2
    /\ eng.prompt_cache.model = ModelM2
    /\ eng.messages = <<[role |-> "system", content |-> TextSys]>>

\* "/model m1" for the model that is current
C23_WitnessUnchanged ==
    /\ repl.n = 2 /\ repl.handler = "cmd_model" /\ repl.arg = ModelM1
    /\ repl.out = <<"(model unchanged: ...)">>
    /\ Len(eng.messages) >= 2

\* C25: /temp, /top_p, /max, /kv and /max_kv with an argument that does not
\* parse print the usage text and leave params, history and prompt cache
\* unchanged; /kv sets kv_bits, kv_group_size and quantized_kv_start together
\* (start keeping its value when omitted) or none of them, and /kv none sets
\* only kv_bits, to absent.
C25_ParseFailures ==
    [][(repl'.n = repl.n + 1 /\ repl'.kind = "command") =>
          LET arg == repl'.arg
              fn == repl'.handler
              same == EngineState(eng') = EngineState(eng)
              words == SplitWords(arg)
              ints == [k \in 1..Len(words) |-> ParseInt(words[k])]
          IN  /\ (fn \in {"cmd_temp", "cmd_top_p"} /\ ~FloatOf(arg).ok) =>
                    same /\ repl'.out \in {<<"Usage: /temp <float>">>, <<"Usage: /top_p <float>">>}
              /\ (fn \in {"cmd_max", "cmd_max_kv"} /\ ParseInt(arg) = None) =>
                    same /\ repl'.out \in {<<"Usage: /max <int>">>, <<"Usage: /max_kv <int>">>}
              /\ fn = "cmd_kv" =>
                    IF Lower(Strip(arg)) = <<"n", "o", "n", "e">>
                    THEN /\ eng'.params = [eng.params EXCEPT !.kv_bits = 0]
                         /\ eng'.messages = eng.messages
                         /\ eng'.prompt_cache = eng.prompt_cache
                    ELSE IF Len(words) \in {2, 3} /\ \A k \in 1..Len(words) : ints[k] # None
                    THEN /\ eng'.params =
                              [eng.params EXCEPT
                                 !.kv_bits = ints[1].n, !.kv_group_size = ints[2].n,
                                 !.quantized_kv_start =
                                     IF Len(words) = 3 THEN ints[3].n ELSE @]
                         /\ eng'.messages = eng.messages
                         /\ eng'.prompt_cache = eng.prompt_cache
                    ELSE \/ Len(words) > 3 /\ \A k \in 1..3 : ints[k] # None
                         \/ same /\ repl'.out = <<UsageKv>>]_vars

\* C25 witness: "/kv 8 32 x" printed the usage text after "/kv 8 32 2" had
\* set the three fields.
C25_Witness ==
    /\ repl.n = 2 /\ repl.handler = "cmd_kv"
    /\ repl.arg = <<"8", " ", "3", "2", " ", "x">>
    /\ repl.out = <<UsageKv>>
    /\ eng.params.quantized_kv_start = 2

\* "/kv 8 32" kept the start set before
C25_WitnessStartKept ==
    /\ repl.n = 2 /\ repl.handler = "cmd_kv"
    /\ repl.arg = <<"8", " ", "3", "2">>
    /\ eng.params.kv_bits = 8 /\ eng.params.kv_group_size = 32
    /\ eng.params.quantized_kv_start = 2

(***************************************************************************)
(* CaseGenerator: references and IDs of the returned test cases            *)
(***************************************************************************)
\* C26: in the list CaseGenerator.process returns, every test case refers
\* to an input scenario and every input scenario has at least one test case,
\* so that G1.2 passes and no test case is a dangling reference for G1.4.
C26_ReferencesAndCoverage ==
    g_pc = "done" =>
       LET scenario_ids == {g_scenarios[k].id : k \in 1..Len(g_scenarios)}
       IN  /\ \A k \in 1..Len(g_returned) : g_returned[k].scenario_id \in scenario_ids
           /\ \A sid \in scenario_ids :
                 \E k \in 1..Len(g_returned) : g_returned[k].scenario_id = sid
           /\ validate_g1_2(g_scenarios, g_returned) = GatePassed

\* C26 witness: two batches returned, with cases of the LLM and minimal
\* cases side by side.
C26_Witness ==
    /\ g_pc = "done"
    /\ Len(g_scenarios) > batch_size
    /\ \E k \in 1..Len(g_returned) : g_returned[k].tags = <<"auto-generated">>
    /\ \E k \in 1..Len(g_returned) : g_returned[k].tags = <<>>

\* C27: the test cases one batch adds to the output have pairwise distinct
\* IDs, also when cases with an unknown scenario were dropped after the
\* renumbering and minimal cases were added.
C27_DistinctIdsInBatch ==
    [][all_test_cases' # all_test_cases =>
          LET added == SubSeq(all_test_cases', Len(all_test_cases) + 1, Len(all_test_cases'))
          IN  \A i, j \in 1..Len(added) : i # j => added[i].id # added[j].id]_vars

====
